---- MODULE Spec2Model ----
(***************************************************************************)
(* Model of the query engine of mcp-server-cloud-regions                   *)
(* (src/src/tools/index.ts) over the static region catalog                 *)
(* (src/src/data/index.ts), of its tool-call handler (src/src/index.ts),   *)
(* and of the loader and the store (src/src/data/remote.ts, store.ts).     *)
(*                                                                         *)
(* Specifications: Spec (filtering, nearby search, text search),           *)
(* SpecCatalog (GPU query, aggregations, degenerate criteria), SpecCallers *)
(* (every engine operation and a caller that modifies what it is           *)
(* returned), SpecTools (the handler), SpecServer (loader, store, main).   *)
(*                                                                         *)
(* Conventions.                                                            *)
(*  - An optional value (a field that may be undefined, an optional        *)
(*    argument) is a sequence of length 0 (undefined) or 1 (the value).    *)
(*  - A string the code looks into (toLowerCase, includes) is a sequence   *)
(*    of one-character strings; a string the code only compares is a       *)
(*    TLA+ string.                                                         *)
(*  - A coordinate is an integer number of 1/10000 degrees.                *)
(*  - A JavaScript number that takes part in floating-point arithmetic is  *)
(*    a decimal floating-point number [m, e] (value m * 10^e) with a       *)
(*    mantissa of four significant digits, so that every intermediate      *)
(*    product fits TLC's 32-bit integers.                                  *)
(***************************************************************************)
EXTENDS Integers, Sequences, FiniteSets, TLC

\* ------------------------------------------------------------------------
\* Optional values and JavaScript array helpers
\* ------------------------------------------------------------------------

None == <<>>

Some(v) == <<v>>

IsSome(o) == Len(o) > 0

Get(o) == o[1]

Range(s) == {s[i] : i \in 1..Len(s)}

\* Array.prototype.includes
includes(list, x) == \E i \in 1..Len(list) : list[i] = x

\* ------------------------------------------------------------------------
\* Strings: String.prototype.toLowerCase and String.prototype.includes
\* ------------------------------------------------------------------------

UpperCase ==
  <<"A", "B", "C", "D", "E", "F", "G", "H", "I", "J", "K", "L", "M",
    "N", "O", "P", "Q", "R", "S", "T", "U", "V", "W", "X", "Y", "Z">>

LowerCase ==
  <<"a", "b", "c", "d", "e", "f", "g", "h", "i", "j", "k", "l", "m",
    "n", "o", "p", "q", "r", "s", "t", "u", "v", "w", "x", "y", "z">>

toLowerCaseChar(c) ==
  IF \E i \in 1..Len(UpperCase) : UpperCase[i] = c
    THEN LowerCase[CHOOSE i \in 1..Len(UpperCase) : UpperCase[i] = c]
    ELSE c

\* toLowerCase, were the case left as it is
toLowerCaseAsIs(s) == s

toLowerCase(s) == [i \in 1..Len(s) |-> toLowerCaseChar(s[i])]

\* s.includes(q): q occurs in s as a contiguous substring (the empty q always)
stringIncludes(s, q) ==
  \E i \in 0..(Len(s) - Len(q)) : SubSeq(s, i + 1, i + Len(q)) = q

\* ------------------------------------------------------------------------
\* Floating-point numbers (four significant decimal digits)
\* ------------------------------------------------------------------------

Pow10(k) ==
  <<1, 10, 100, 1000, 10000, 100000, 1000000, 10000000, 100000000>>[k + 1]

RECURSIVE NormPos(_, _)
NormPos(m, e) ==
  IF m = 0 THEN [m |-> 0, e |-> 0]
  ELSE IF m >= 10000 THEN NormPos((m + 5) \div 10, e + 1)
  ELSE IF m < 1000 THEN NormPos(m * 10, e - 1)
  ELSE [m |-> m, e |-> e]

\* the number m * 10^e, rounded to four significant digits
Num(m, e) ==
  IF m < 0
    THEN [m |-> 0 - NormPos(0 - m, e).m, e |-> NormPos(0 - m, e).e]
    ELSE NormPos(m, e)

Mul(x, y) == Num(x.m * y.m, x.e + y.e)

Div(x, y) == Num((x.m * 100000) \div y.m, x.e - y.e - 5)

AddOrdered(x, y) ==
  LET diff == x.e - y.e
      up == IF diff < 4 THEN diff ELSE 4
      down == diff - up
  IN  IF x.m = 0 THEN y
      ELSE IF y.m = 0 \/ down > 4 THEN x
      ELSE Num(x.m * Pow10(up) + y.m \div Pow10(down), x.e - up)

Add(x, y) == IF x.e >= y.e THEN AddOrdered(x, y) ELSE AddOrdered(y, x)

Sub(x, y) == Add(x, [m |-> 0 - y.m, e |-> y.e])

RECURSIVE ISqrtBetween(_, _, _)
ISqrtBetween(n, lo, hi) ==
  IF lo >= hi THEN lo
  ELSE LET mid == (lo + hi + 1) \div 2
       IN  IF mid * mid <= n
             THEN ISqrtBetween(n, mid, hi)
             ELSE ISqrtBetween(n, lo, mid - 1)

\* Math.sqrt, of a number >= 0
Sqrt(x) ==
  LET odd == (x.e % 2) # 0
      m == IF odd THEN x.m * 100000 ELSE x.m * 10000
      e == IF odd THEN x.e - 5 ELSE x.e - 4
  IN  Num(ISqrtBetween(m, 0, 46340), e \div 2)

\* Math.PI
PI == Num(3142, -3)

One == Num(1, 0)

Two == Num(2, 0)

\* Sum of an alternating Taylor series: the term after `term` (of degree n)
\* is -term * x2 / ((n + 1) * (n + 2)).
RECURSIVE Series(_, _, _, _, _)
Series(term, x2, n, last, acc) ==
  IF n > last THEN acc
  ELSE LET next == Div(Mul(term, x2), Num(0 - (n + 1) * (n + 2), 0))
       IN  Series(next, x2, n + 2, last, Add(acc, next))

\* Math.sin and Math.cos, of an angle in [-PI, PI]
Sin(x) == Series(x, Mul(x, x), 1, 15, x)

Cos(x) == Series(One, Mul(x, x), 0, 14, One)

RECURSIVE AtanSeries(_, _, _, _, _)
AtanSeries(pow, t2, n, last, acc) ==
  IF n > last THEN acc
  ELSE LET next == Mul(pow, Num(0 - t2.m, t2.e))
       IN  AtanSeries(next, t2, n + 2, last, Add(acc, Div(next, Num(n, 0))))

\* atan(t) = 2 * atan(t / (1 + sqrt(1 + t^2)))
AtanHalve(t) == Div(t, Add(One, Sqrt(Add(One, Mul(t, t)))))

\* atan of a number in [0, 1]
AtanUnit(t) ==
  LET u == AtanHalve(AtanHalve(t))
  IN  Mul(Num(4, 0), AtanSeries(u, Mul(u, u), 3, 9, u))

\* Math.atan2(y, x) for y >= 0 and x >= 0
Atan2(y, x) ==
  IF y.m = 0 THEN Num(0, 0)
  ELSE IF x.m = 0 THEN Div(PI, Two)
  ELSE IF Sub(y, x).m <= 0 THEN AtanUnit(Div(y, x))
  ELSE Sub(Div(PI, Two), AtanUnit(Div(x, y)))

\* MathRound, were it Math.floor
MathFloor(x) ==
  IF x.e >= 0 THEN x.m * Pow10(x.e)
  ELSE IF 0 - x.e > 4 THEN 0
  ELSE x.m \div Pow10(0 - x.e)

\* Math.round of a number >= 0: floor(x + 1/2)
MathRound(x) ==
  IF x.e >= 0 THEN x.m * Pow10(x.e)
  ELSE IF 0 - x.e > 4 THEN 0
  ELSE (2 * x.m + Pow10(0 - x.e)) \div (2 * Pow10(0 - x.e))

\* (deg * Math.PI) / 180
Radians(deg) == Div(Mul(deg, PI), Num(180, 0))

\* a coordinate (or a difference of coordinates), in degrees
Degrees(coord) == Num(coord, -4)

\* ------------------------------------------------------------------------
\* haversineDistance (src/src/tools/index.ts)
\* ------------------------------------------------------------------------

\* haversineDistance, were the arguments of Math.atan2 swapped
haversineDistanceSwapped(lat1, lon1, lat2, lon2) ==
  LET R == Num(6371, 0)
      dLat == Radians(Degrees(lat2 - lat1))
      dLon == Radians(Degrees(lon2 - lon1))
      a == Add(Mul(Sin(Div(dLat, Two)), Sin(Div(dLat, Two))),
               Mul(Mul(Mul(Cos(Radians(Degrees(lat1))),
                           Cos(Radians(Degrees(lat2)))),
                       Sin(Div(dLon, Two))),
                   Sin(Div(dLon, Two))))
      c == Mul(Two, Atan2(Sqrt(Sub(One, a)), Sqrt(a)))
  IN  Mul(R, c)

\* Great-circle distance in kilometres between two points given by their
\* coordinates.
haversineDistance(lat1, lon1, lat2, lon2) ==
  LET R == Num(6371, 0)
      dLat == Radians(Degrees(lat2 - lat1))
      dLon == Radians(Degrees(lon2 - lon1))
      a == Add(Mul(Sin(Div(dLat, Two)), Sin(Div(dLat, Two))),
               Mul(Mul(Mul(Cos(Radians(Degrees(lat1))),
                           Cos(Radians(Degrees(lat2)))),
                       Sin(Div(dLon, Two))),
                   Sin(Div(dLon, Two))))
      c == Mul(Two, Atan2(Sqrt(a), Sqrt(Sub(One, a))))
  IN  Mul(R, c)

\* ------------------------------------------------------------------------
\* The catalog: regions and providers the data modules may hold
\* ------------------------------------------------------------------------

aws == <<"a", "w", "s">>

gcp == <<"g", "c", "p">>

scaleway == <<"s", "c", "a", "l", "e", "w", "a", "y">>

lambda == <<"l", "a", "m", "b", "d", "a">>

Frankfurt == <<"F", "r", "a", "n", "k", "f", "u", "r", "t">>

Germany == <<"G", "e", "r", "m", "a", "n", "y">>

Paris == <<"P", "a", "r", "i", "s">>

France == <<"F", "r", "a", "n", "c", "e">>

Ashburn == <<"A", "s", "h", "b", "u", "r", "n">>

USA == <<"U", "S", "A">>

Deutschland == <<"D", "e", "u", "t", "s", "c", "h", "l", "a", "n", "d">>

SaintDenis == <<"S", "t", "-", "D", "e", "n", "i", "s">>

NvidiaA100 == <<"N", "V", "I", "D", "I", "A", " ", "A", "1", "0", "0">>

NvidiaH100 == <<"N", "V", "I", "D", "I", "A", " ", "H", "1", "0", "0">>

\* A (Germany/Frankfurt): every optional block present
RegionA ==
  [id |-> "aws-eu-central-1", provider |-> aws,
   regionCode |-> <<"e", "u", "-", "c", "-", "1">>,
   displayName |-> <<"E", "U", " ", "(">> \o Frankfurt \o <<")">>,
   regionType |-> "commercial",
   location |-> [country |-> Germany, countryCode |-> "DE", city |-> Frankfurt,
                 latitude |-> 501000, longitude |-> 87000,
                 continent |-> "europe"],
   availabilityZones |-> Some(3), status |-> "ga",
   compliance |-> Some(<<"HIPAA", "SOC2", "PCI-DSS">>),
   sustainability |-> Some([carbonNeutral |-> Some(TRUE)]),
   services |-> Some([gpu |-> Some(TRUE),
                      gpuTypes |-> Some(<<NvidiaA100, NvidiaH100>>)]),
   sovereignty |-> None]

\* B (France/Paris): a sovereign region with one certification
RegionB ==
  [id |-> "scaleway-fr-par", provider |-> scaleway,
   regionCode |-> <<"f", "r", "-", "p", "a", "r">>,
   displayName |-> Paris,
   regionType |-> "sovereign",
   location |-> [country |-> France, countryCode |-> "FR", city |-> Paris,
                 latitude |-> 488500, longitude |-> 23500,
                 continent |-> "europe"],
   availabilityZones |-> None, status |-> "preview",
   compliance |-> Some(<<"HIPAA">>),
   sustainability |-> Some([carbonNeutral |-> Some(FALSE)]),
   services |-> Some([gpu |-> None, gpuTypes |-> None]),
   sovereignty |-> Some([dataResidency |-> Some("EU")])]

\* a second region at A's coordinates, with no optional block at all
RegionC ==
  [id |-> "gcp-europe-west3", provider |-> gcp,
   regionCode |-> <<"e", "u", "-", "w", "3">>,
   displayName |-> Frankfurt,
   regionType |-> "commercial",
   location |-> [country |-> Germany, countryCode |-> "DE", city |-> Frankfurt,
                 latitude |-> 501000, longitude |-> 87000,
                 continent |-> "europe"],
   availabilityZones |-> None, status |-> "ga",
   compliance |-> None,
   sustainability |-> None,
   services |-> None,
   sovereignty |-> None]

\* a GPU region overseas, with an empty certification list
RegionD ==
  [id |-> "lambda-us-east-1", provider |-> lambda,
   regionCode |-> <<"u", "s", "-", "e", "-", "1">>,
   displayName |-> <<"V", "i", "r", "g", "i", "n", "i", "a">>,
   regionType |-> "commercial",
   location |-> [country |-> USA, countryCode |-> "US", city |-> Ashburn,
                 latitude |-> 390400, longitude |-> -774900,
                 continent |-> "north-america"],
   availabilityZones |-> Some(1), status |-> "limited",
   compliance |-> Some(<<>>),
   sustainability |-> Some([carbonNeutral |-> None]),
   services |-> Some([gpu |-> Some(TRUE), gpuTypes |-> Some(<<NvidiaH100>>)]),
   sovereignty |-> Some([dataResidency |-> None])]

RegionPool == {RegionA, RegionB, RegionC, RegionD}

\* the longest region collection of the model
MaxRegions == 3

\* every collection of at most MaxRegions different pool regions, in any order
RegionCollections ==
  UNION {{s \in [1..n -> RegionPool] : \A i, j \in 1..n : s[i] = s[j] => i = j} :
         n \in 0..MaxRegions}

ProviderAws ==
  [id |-> aws,
   name |-> <<"A", "m", "a", "z", "o", "n", " ", "W", "e", "b", " ",
              "S", "e", "r", "v", "i", "c", "e", "s">>,
   tier |-> "hyperscaler"]

ProviderGcp ==
  [id |-> gcp,
   name |-> <<"G", "o", "o", "g", "l", "e", " ", "C", "l", "o", "u", "d">>,
   tier |-> "hyperscaler"]

ProviderScaleway ==
  [id |-> scaleway,
   name |-> <<"S", "c", "a", "l", "e", "w", "a", "y">>,
   tier |-> "regional"]

ProviderLambda ==
  [id |-> lambda,
   name |-> <<"L", "a", "m", "b", "d", "a", " ", "L", "a", "b", "s">>,
   tier |-> "specialized"]

\* the provider tables of the model: a complete one, and one in which the
\* provider of RegionD does not resolve
ProviderTables ==
  {<<ProviderAws, ProviderGcp, ProviderScaleway, ProviderLambda>>,
   <<ProviderAws, ProviderGcp, ProviderScaleway>>}

\* a second region of A's provider in A's city, whose record spells the
\* country differently; a GPU region that lists one GPU model
RegionE ==
  [id |-> "aws-eu-central-2", provider |-> aws,
   regionCode |-> <<"e", "u", "-", "c", "-", "2">>,
   displayName |-> Frankfurt,
   regionType |-> "commercial",
   location |-> [country |-> Deutschland, countryCode |-> "DE",
                 city |-> Frankfurt,
                 latitude |-> 501000, longitude |-> 87000,
                 continent |-> "europe"],
   availabilityZones |-> Some(3), status |-> "ga",
   compliance |-> None,
   sustainability |-> None,
   services |-> Some([gpu |-> Some(TRUE), gpuTypes |-> Some(<<NvidiaA100>>)]),
   sovereignty |-> None]

\* a GPU region that lists no GPU model, in a city whose name has a hyphen
RegionF ==
  [id |-> "scaleway-fr-sd", provider |-> scaleway,
   regionCode |-> <<"f", "r", "-", "s", "d">>,
   displayName |-> SaintDenis,
   regionType |-> "commercial",
   location |-> [country |-> France, countryCode |-> "FR", city |-> SaintDenis,
                 latitude |-> 489400, longitude |-> 23600,
                 continent |-> "europe"],
   availabilityZones |-> Some(1), status |-> "ga",
   compliance |-> None,
   sustainability |-> Some([carbonNeutral |-> Some(TRUE)]),
   services |-> Some([gpu |-> Some(TRUE), gpuTypes |-> None]),
   sovereignty |-> None]

\* the regions the GPU query and the aggregations are run over
CatalogPool == RegionPool \cup {RegionE, RegionF}

\* every collection of at most MaxRegions different catalog regions
CatalogCollections ==
  UNION {{s \in [1..n -> CatalogPool] : \A i, j \in 1..n : s[i] = s[j] => i = j} :
         n \in 0..MaxRegions}

\* ------------------------------------------------------------------------
\* Filter specifications (RegionFilter)
\* ------------------------------------------------------------------------

\* the filter object {}: no criterion supplied
EmptyFilter ==
  [providers |-> None, tiers |-> None, countryCodes |-> None,
   continents |-> None, compliance |-> None, carbonNeutral |-> None,
   hasGpu |-> None, status |-> None, regionTypes |-> None,
   dataResidency |-> None, minAvailabilityZones |-> None]

\* the filters that supply one criterion, degenerate values included
OneCriterion ==
  {[EmptyFilter EXCEPT !.providers = Some(v)] : v \in {<<>>, <<aws>>, <<gcp, scaleway>>}}
    \cup {[EmptyFilter EXCEPT !.tiers = Some(v)] : v \in {<<"hyperscaler">>, <<"specialized", "regional">>}}
    \cup {[EmptyFilter EXCEPT !.countryCodes = Some(v)] : v \in {<<"DE">>}}
    \cup {[EmptyFilter EXCEPT !.continents = Some(v)] : v \in {<<"europe">>}}
    \cup {[EmptyFilter EXCEPT !.compliance = Some(v)] :
            v \in {<<>>, <<"HIPAA">>, <<"HIPAA", "SOC2">>}}
    \cup {[EmptyFilter EXCEPT !.carbonNeutral = Some(v)] : v \in BOOLEAN}
    \cup {[EmptyFilter EXCEPT !.hasGpu = Some(v)] : v \in BOOLEAN}
    \cup {[EmptyFilter EXCEPT !.status = Some(v)] : v \in {<<"ga", "preview">>}}
    \cup {[EmptyFilter EXCEPT !.regionTypes = Some(v)] : v \in {<<"sovereign">>}}
    \cup {[EmptyFilter EXCEPT !.dataResidency = Some(v)] : v \in {"", "EU"}}
    \cup {[EmptyFilter EXCEPT !.minAvailabilityZones = Some(v)] : v \in {-1, 0, 2}}

\* the object spread {...f, ...g}: g's criteria over f's
Spread(f, g) == [k \in DOMAIN f |-> IF IsSome(g[k]) THEN g[k] ELSE f[k]]

\* the most criteria a filter of the model supplies
MaxCriteria == 2

RECURSIVE FiltersUpTo(_)
FiltersUpTo(n) ==
  IF n = 0 THEN {EmptyFilter}
  ELSE FiltersUpTo(n - 1)
         \cup {Spread(f, g) : f \in FiltersUpTo(n - 1), g \in OneCriterion}

Filters == FiltersUpTo(MaxCriteria)

\* ------------------------------------------------------------------------
\* State
\* ------------------------------------------------------------------------

VARIABLES
  allRegions,   \* the region collection of src/src/data/index.ts
  providers,    \* the provider table of src/src/data/providers.ts
  call,         \* the last call made to the engine, with its arguments
  result,       \* what that call returned
  store,        \* the store object of src/src/data/store.ts
  cachedData,   \* the cache of src/src/data/remote.ts
  now,          \* Date.now(), in milliseconds since the process started
  serving,      \* TRUE once main() has connected the transport
  remote,       \* how the remote data URL currently answers a request
  fetching      \* TRUE while a fetchRegionData call awaits the network

vars ==
  <<allRegions, providers, call, result, store, cachedData, now, serving,
    remote, fetching>>

\* what an engine call leaves alone
modules ==
  <<allRegions, providers, store, cachedData, now, serving, remote, fetching>>

\* what a call that acts on allRegions alone leaves alone
besidesAllRegions ==
  <<providers, store, cachedData, now, serving, remote, fetching>>

\* the arguments of a call; an operation reads only its own
NoCall ==
  [op |-> "none", filter |-> None, certifications |-> <<>>, query |-> <<>>,
   latitude |-> 0, longitude |-> 0, maxDistanceKm |-> None, limit |-> None,
   gpuType |-> None, countryCode |-> None, continent |-> None, id |-> None,
   arguments |-> None]

\* ------------------------------------------------------------------------
\* What a request to the remote data URL can come to
\* ------------------------------------------------------------------------

\* a parsed body: its regions member (missing, a string or an array) and its
\* optional providers and metadata members
Body(regionsKind, items, bodyProviders, bodyMetadata) ==
  [regions |-> [kind |-> regionsKind, items |-> items],
   providers |-> bodyProviders, metadata |-> bodyMetadata]

NoBody == Body("missing", <<>>, None, None)

\* fetch rejects (no network), the endpoint never answers (the 5 s timer
\* aborts the request), the status is not 2xx, the body is not JSON, or the
\* body is the JSON value null
Unreachable == [kind |-> "networkError", body |-> NoBody]

Failures ==
  {[kind |-> k, body |-> NoBody] :
     k \in {"networkError", "timeout", "notOk", "notJson", "null"}}

\* the metadata record of the remote file
remoteMetadata ==
  [lastUpdated |-> "2026-02-01", version |-> "0.2.0",
   totalRegions |-> 268, totalProviders |-> 14]

\* the provider table of the remote file
remoteProviders == <<ProviderScaleway, ProviderLambda>>

\* a later record under RegionA's identifier
RegionAReissued == [RegionA EXCEPT !.status = "deprecated"]

\* the region lists the remote file may hold
RemoteRegionLists == {<<RegionB>>, <<RegionD, RegionA>>, <<RegionA, RegionAReissued>>}

\* the JSON objects the URL may serve: well-formed ones, and ones that lack
\* a member or whose regions member is not an array
Objects ==
  {[kind |-> "json", body |-> Body("array", items, Some(remoteProviders), Some(remoteMetadata))] :
     items \in RemoteRegionLists}
    \cup {[kind |-> "json", body |-> b] :
            b \in {Body("missing", <<>>, Some(remoteProviders), Some(remoteMetadata)),
                   Body("string", <<>>, Some(remoteProviders), Some(remoteMetadata)),
                   Body("array", <<RegionB>>, None, Some(remoteMetadata)),
                   Body("array", <<RegionB>>, Some(remoteProviders), None)}}

\* the endpoint answers with its headers (status 200) and never finishes
\* the body
Stalled == [kind |-> "stalled", body |-> NoBody]

Responses == Failures \cup Objects \cup {Stalled}

\* the bundled metadata record (its sources table left out)
dataMetadata ==
  [lastUpdated |-> "2026-01-21", version |-> "0.1.0",
   totalRegions |-> 267, totalProviders |-> 14]

\* new Map(records.map((r) => [r.id, r])): one key per id, the last record
\* with an id being the one kept
newMap(records) ==
  [id \in {records[i].id : i \in 1..Len(records)} |->
     LET at == {i \in 1..Len(records) : records[i].id = id}
     IN  records[CHOOSE i \in at : \A j \in at : j <= i]]

\* Map.get: the value under the key, undefined when the map has no such key
mapGet(map, key) == IF key \in DOMAIN map THEN Some(map[key]) ELSE None

\* the store as the module creates it: the bundled data
bundledStore ==
  [regions |-> allRegions, providers |-> Some(providers),
   metadata |-> Some(dataMetadata), source |-> "bundled",
   regionMap |-> newMap(allRegions), providerMap |-> newMap(providers)]

\* the modules as they are once loaded
Loaded ==
  /\ providers \in ProviderTables
  /\ call = NoCall
  /\ result = <<>>
  /\ store = bundledStore
  /\ cachedData = None
  /\ now = 0
  /\ serving = FALSE
  /\ fetching = None

Init ==
  /\ allRegions \in RegionCollections
  /\ remote = Unreachable
  /\ Loaded

\* providerMap.get(id): the last provider of the table with that id
providerMapGet(id) ==
  LET at == {i \in 1..Len(providers) : providers[i].id = id}
  IN  IF at = {} THEN None
      ELSE Some(providers[CHOOSE i \in at : \A j \in at : j <= i])

\* ------------------------------------------------------------------------
\* applyFilters: one operator per criterion, TRUE when the criterion makes
\* the callback return false for the region
\* ------------------------------------------------------------------------

rejectsProviders(region, filter) ==
  /\ IsSome(filter.providers) /\ Len(Get(filter.providers)) > 0
  /\ ~includes(Get(filter.providers), region.provider)

\* rejectsTiers, were a provider that does not resolve let through
rejectsTiersOfResolved(region, filter) ==
  /\ IsSome(filter.tiers) /\ Len(Get(filter.tiers)) > 0
  /\ LET providerInfo == providerMapGet(region.provider)
     IN  /\ IsSome(providerInfo)
         /\ ~includes(Get(filter.tiers), Get(providerInfo).tier)

rejectsTiers(region, filter) ==
  /\ IsSome(filter.tiers) /\ Len(Get(filter.tiers)) > 0
  /\ LET providerInfo == providerMapGet(region.provider)
     IN  \/ ~IsSome(providerInfo)
         \/ ~includes(Get(filter.tiers), Get(providerInfo).tier)

rejectsCountryCodes(region, filter) ==
  /\ IsSome(filter.countryCodes) /\ Len(Get(filter.countryCodes)) > 0
  /\ ~includes(Get(filter.countryCodes), region.location.countryCode)

rejectsContinents(region, filter) ==
  /\ IsSome(filter.continents) /\ Len(Get(filter.continents)) > 0
  /\ ~includes(Get(filter.continents), region.location.continent)

\* rejectsCompliance, were one required certification enough (ANY, not ALL)
rejectsComplianceAny(region, filter) ==
  /\ IsSome(filter.compliance) /\ Len(Get(filter.compliance)) > 0
  /\ \/ ~IsSome(region.compliance)
     \/ \A i \in 1..Len(Get(filter.compliance)) :
          ~includes(Get(region.compliance), Get(filter.compliance)[i])

rejectsCompliance(region, filter) ==
  /\ IsSome(filter.compliance) /\ Len(Get(filter.compliance)) > 0
  /\ \/ ~IsSome(region.compliance)
     \/ \E i \in 1..Len(Get(filter.compliance)) :
          ~includes(Get(region.compliance), Get(filter.compliance)[i])

\* rejectsCarbonNeutral, were the test `filter.carbonNeutral !== false`
rejectsCarbonNeutralUnlessFalse(region, filter) ==
  /\ ~(IsSome(filter.carbonNeutral) /\ Get(filter.carbonNeutral) = FALSE)
  /\ ~(/\ IsSome(region.sustainability)
       /\ IsSome(Get(region.sustainability).carbonNeutral)
       /\ Get(Get(region.sustainability).carbonNeutral))

rejectsCarbonNeutral(region, filter) ==
  /\ IsSome(filter.carbonNeutral) /\ Get(filter.carbonNeutral) = TRUE
  /\ ~(/\ IsSome(region.sustainability)
       /\ IsSome(Get(region.sustainability).carbonNeutral)
       /\ Get(Get(region.sustainability).carbonNeutral))

\* rejectsHasGpu, were hasGpu: false to ask for regions without GPUs
rejectsHasGpuEitherWay(region, filter) ==
  /\ IsSome(filter.hasGpu)
  /\ Get(filter.hasGpu) # (/\ IsSome(region.services)
                           /\ IsSome(Get(region.services).gpu)
                           /\ Get(Get(region.services).gpu))

rejectsHasGpu(region, filter) ==
  /\ IsSome(filter.hasGpu) /\ Get(filter.hasGpu) = TRUE
  /\ ~(/\ IsSome(region.services)
       /\ IsSome(Get(region.services).gpu)
       /\ Get(Get(region.services).gpu))

rejectsStatus(region, filter) ==
  /\ IsSome(filter.status) /\ Len(Get(filter.status)) > 0
  /\ ~includes(Get(filter.status), region.status)

rejectsRegionTypes(region, filter) ==
  /\ IsSome(filter.regionTypes) /\ Len(Get(filter.regionTypes)) > 0
  /\ ~includes(Get(filter.regionTypes), region.regionType)

rejectsDataResidency(region, filter) ==
  /\ IsSome(filter.dataResidency) /\ Get(filter.dataResidency) # ""
  /\ ~(/\ IsSome(region.sovereignty)
       /\ IsSome(Get(region.sovereignty).dataResidency)
       /\ Get(Get(region.sovereignty).dataResidency) = Get(filter.dataResidency))

\* rejectsMinAvailabilityZones, were the comparison `<=`
rejectsMinAvailabilityZonesStrict(region, filter) ==
  /\ IsSome(filter.minAvailabilityZones)
  /\ (IF IsSome(region.availabilityZones) THEN Get(region.availabilityZones) ELSE 0)
       <= Get(filter.minAvailabilityZones)

rejectsMinAvailabilityZones(region, filter) ==
  /\ IsSome(filter.minAvailabilityZones)
  /\ (IF IsSome(region.availabilityZones) THEN Get(region.availabilityZones) ELSE 0)
       < Get(filter.minAvailabilityZones)

\* the callback of regions.filter in applyFilters
applyFiltersCallback(region, filter) ==
  IF rejectsProviders(region, filter) THEN FALSE
  ELSE IF rejectsTiers(region, filter) THEN FALSE
  ELSE IF rejectsCountryCodes(region, filter) THEN FALSE
  ELSE IF rejectsContinents(region, filter) THEN FALSE
  ELSE IF rejectsCompliance(region, filter) THEN FALSE
  ELSE IF rejectsCarbonNeutral(region, filter) THEN FALSE
  ELSE IF rejectsHasGpu(region, filter) THEN FALSE
  ELSE IF rejectsStatus(region, filter) THEN FALSE
  ELSE IF rejectsRegionTypes(region, filter) THEN FALSE
  ELSE IF rejectsDataResidency(region, filter) THEN FALSE
  ELSE IF rejectsMinAvailabilityZones(region, filter) THEN FALSE
  ELSE TRUE

\* regions.filter(callback): Array.prototype.filter is SelectSeq
applyFilters(regions, filter) ==
  SelectSeq(regions, LAMBDA region : applyFiltersCallback(region, filter))

\* listRegions(filter?)
listRegions(filter) ==
  IF ~IsSome(filter) THEN allRegions
  ELSE applyFilters(allRegions, Get(filter))

\* findCompliantRegions(certifications, filter?)
findCompliantRegions(certifications, filter) ==
  LET combinedFilter ==
        [(IF IsSome(filter) THEN Get(filter) ELSE EmptyFilter)
           EXCEPT !.compliance = Some(certifications)]
  IN  applyFilters(allRegions, combinedFilter)

\* findSustainableRegions(filter?)
findSustainableRegions(filter) ==
  LET combinedFilter ==
        [(IF IsSome(filter) THEN Get(filter) ELSE EmptyFilter)
           EXCEPT !.carbonNeutral = Some(TRUE)]
  IN  applyFilters(allRegions, combinedFilter)

\* ------------------------------------------------------------------------
\* findNearbyRegions
\* ------------------------------------------------------------------------

\* { ...region, distanceKm }
withDistance(region, distanceKm) ==
  [k \in DOMAIN region \cup {"distanceKm"} |->
     IF k = "distanceKm" THEN distanceKm ELSE region[k]]

\* the search points of the model: central Paris, the coordinates of RegionA
\* and RegionC, the coordinates of RegionD
SearchPoints == {<<488566, 23522>>, <<501000, 87000>>, <<390400, -774900>>}

\* the coordinates of a region
coordinatesOf(region) == <<region.location.latitude, region.location.longitude>>

\* Math.round(haversineDistance(search.latitude, search.longitude,
\* region.location.latitude, region.location.longitude)) for every search
\* point and every region of the model, evaluated once
distanceKmOf ==
  [p \in SearchPoints |->
     [q \in {coordinatesOf(r) : r \in RegionPool} |->
        MathRound(haversineDistance(p[1], p[2], q[1], q[2]))]]

\* the callback of regions.map: the region with its rounded distance from
\* the search point
withDistanceFrom(search, region) ==
  withDistance(region,
               distanceKmOf[<<search.latitude, search.longitude>>][coordinatesOf(region)])

\* the comparator (a, b) => a.distanceKm - b.distanceKm
compareDistance(a, b) == a.distanceKm - b.distanceKm

\* Array.prototype.sort is stable: an element goes after the elements that
\* do not compare greater than it
\* sortInsert, were the sort unstable: an element goes before its equals
RECURSIVE sortInsertBeforeEquals(_, _)
sortInsertBeforeEquals(sorted, x) ==
  IF Len(sorted) = 0 THEN <<x>>
  ELSE IF compareDistance(Head(sorted), x) < 0
    THEN <<Head(sorted)>> \o sortInsertBeforeEquals(Tail(sorted), x)
    ELSE <<x>> \o sorted

RECURSIVE sortInsert(_, _)
sortInsert(sorted, x) ==
  IF Len(sorted) = 0 THEN <<x>>
  ELSE IF compareDistance(Head(sorted), x) <= 0
    THEN <<Head(sorted)>> \o sortInsert(Tail(sorted), x)
    ELSE <<x>> \o sorted

RECURSIVE sortByDistance(_)
sortByDistance(array) ==
  IF Len(array) = 0 THEN <<>>
  ELSE sortInsert(sortByDistance(SubSeq(array, 1, Len(array) - 1)),
                  array[Len(array)])

\* withinMaxDistance, were the bound exclusive
withinMaxDistanceExclusive(r, maxDistanceKm) == r.distanceKm < maxDistanceKm

\* the callback (r) => r.distanceKm <= search.maxDistanceKm
withinMaxDistance(r, maxDistanceKm) == r.distanceKm <= maxDistanceKm

\* array.slice(0, end) for an integer end: a negative end counts from the
\* end of the array
slice0(array, end) ==
  LET len == Len(array)
      final == IF end < 0
                 THEN (IF len + end > 0 THEN len + end ELSE 0)
                 ELSE (IF end < len THEN end ELSE len)
  IN  SubSeq(array, 1, final)

findNearbyRegions(search) ==
  LET regions == IF IsSome(search.filter)
                   THEN applyFilters(allRegions, Get(search.filter))
                   ELSE allRegions
      withDistances == sortByDistance(
                         [i \in 1..Len(regions) |-> withDistanceFrom(search, regions[i])])
      bounded == IF IsSome(search.maxDistanceKm)
                   THEN SelectSeq(withDistances,
                                  LAMBDA r : withinMaxDistance(r, Get(search.maxDistanceKm)))
                   ELSE withDistances
  IN  IF IsSome(search.limit) THEN slice0(bounded, Get(search.limit)) ELSE bounded

\* An array of the engine is one of the arrays of data/index.ts, named
\* "allRegions" or "providers", or an array of its own, named "own".

\* arrayMap, were the receiver mapped in place
arrayMapInPlace(receiver) == receiver

\* the array Array.prototype.map returns: never the receiver
arrayMap(receiver) == "own"

\* the array applyFilters returns (Array.prototype.filter): never the receiver
arrayFilter(receiver) == "own"

\* the array withDistances of findNearbyRegions is
withDistancesArray(search) ==
  arrayMap(IF IsSome(search.filter) THEN arrayFilter("allRegions") ELSE "allRegions")

\* allRegions once withDistances.sort(...) has sorted its receiver in place
allRegionsAfterSort(search) ==
  IF withDistancesArray(search) = "allRegions"
    THEN sortByDistance([i \in 1..Len(allRegions) |->
                           withDistanceFrom(search, allRegions[i])])
    ELSE allRegions

\* ------------------------------------------------------------------------
\* searchRegions
\* ------------------------------------------------------------------------

\* the callback of regions.filter in searchRegions
searchRegionsCallback(region, lowerQuery) ==
  \/ stringIncludes(toLowerCase(region.displayName), lowerQuery)
  \/ stringIncludes(toLowerCase(region.regionCode), lowerQuery)
  \/ stringIncludes(toLowerCase(region.location.city), lowerQuery)
  \/ stringIncludes(toLowerCase(region.location.country), lowerQuery)
  \/ stringIncludes(toLowerCase(region.provider), lowerQuery)

\* searchRegions(query, filter?)
searchRegions(query, filter) ==
  LET lowerQuery == toLowerCase(query)
      regions == IF IsSome(filter)
                   THEN applyFilters(allRegions, Get(filter))
                   ELSE allRegions
  IN  SelectSeq(regions, LAMBDA region : searchRegionsCallback(region, lowerQuery))

\* ------------------------------------------------------------------------
\* findGpuRegions and compareProviderCoverage
\* ------------------------------------------------------------------------

\* listsGpuType, were every listed model required to contain the query
listsGpuTypeEvery(region, lowerGpuType) ==
  /\ IsSome(region.services)
  /\ IsSome(Get(region.services).gpuTypes)
  /\ LET gpuTypes == Get(Get(region.services).gpuTypes)
     IN  \A i \in 1..Len(gpuTypes) :
           stringIncludes(toLowerCase(gpuTypes[i]), lowerGpuType)

\* r.services?.gpuTypes?.some((g) => g.toLowerCase().includes(lowerGpuType))
listsGpuType(region, lowerGpuType) ==
  /\ IsSome(region.services)
  /\ IsSome(Get(region.services).gpuTypes)
  /\ LET gpuTypes == Get(Get(region.services).gpuTypes)
     IN  \E i \in 1..Len(gpuTypes) :
           stringIncludes(toLowerCase(gpuTypes[i]), lowerGpuType)

\* findGpuRegions(gpuType?, filter?); an empty gpuType is falsy
findGpuRegions(gpuType, filter) ==
  LET given == IF IsSome(filter) THEN Get(filter) ELSE EmptyFilter
      regions == applyFilters(allRegions, [given EXCEPT !.hasGpu = Some(TRUE)])
  IN  IF IsSome(gpuType) /\ Get(gpuType) # <<>>
        THEN LET lowerGpuType == toLowerCase(Get(gpuType))
             IN  SelectSeq(regions, LAMBDA r : listsGpuType(r, lowerGpuType))
        ELSE regions

\* countsAfter, were a key's first occurrence not counted
RECURSIVE countsFromZeroAfter(_, _)
countsFromZeroAfter(keys, n) ==
  IF n = 0 THEN <<>>
  ELSE LET counts == countsFromZeroAfter(keys, n - 1)
       IN  IF keys[n] \in DOMAIN counts
             THEN [counts EXCEPT ![keys[n]] = @ + 1]
             ELSE [k \in DOMAIN counts \cup {keys[n]} |->
                     IF k = keys[n] THEN 0 ELSE counts[k]]

\* the record built by  counts[key] = (counts[key] ?? 0) + 1  over the first
\* n keys
RECURSIVE countsAfter(_, _)
countsAfter(keys, n) ==
  IF n = 0 THEN <<>>
  ELSE LET counts == countsAfter(keys, n - 1)
       IN  IF keys[n] \in DOMAIN counts
             THEN [counts EXCEPT ![keys[n]] = @ + 1]
             ELSE [k \in DOMAIN counts \cup {keys[n]} |->
                     IF k = keys[n] THEN 0 + 1 ELSE counts[k]]

\* compareProviderCoverage(countryCode?, continent?); an empty string is falsy
compareProviderCoverage(countryCode, continent) ==
  LET filter ==
        [EmptyFilter EXCEPT
           !.countryCodes = IF IsSome(countryCode) /\ Get(countryCode) # ""
                              THEN Some(<<Get(countryCode)>>) ELSE None,
           !.continents = IF IsSome(continent) /\ Get(continent) # ""
                            THEN Some(<<Get(continent)>>) ELSE None]
      filtered == IF IsSome(filter.countryCodes) \/ IsSome(filter.continents)
                    THEN applyFilters(allRegions, filter)
                    ELSE allRegions
  IN  countsAfter([i \in 1..Len(filtered) |-> filtered[i].provider],
                  Len(filtered))

\* ------------------------------------------------------------------------
\* listCountries, listCities and getStatistics
\* ------------------------------------------------------------------------

\* the comparator (a, b) => b.regionCount - a.regionCount
compareRegionCount(a, b) == b.regionCount - a.regionCount

\* sortInsertByCount, were the sort unstable: an element goes before its equals
RECURSIVE sortInsertByCountBeforeEquals(_, _)
sortInsertByCountBeforeEquals(sorted, x) ==
  IF Len(sorted) = 0 THEN <<x>>
  ELSE IF compareRegionCount(Head(sorted), x) < 0
    THEN <<Head(sorted)>> \o sortInsertByCountBeforeEquals(Tail(sorted), x)
    ELSE <<x>> \o sorted

\* the stable Array.prototype.sort under compareRegionCount, one element at a
\* time: an element goes after the elements that do not compare greater
RECURSIVE sortInsertByCount(_, _)
sortInsertByCount(sorted, x) ==
  IF Len(sorted) = 0 THEN <<x>>
  ELSE IF compareRegionCount(Head(sorted), x) <= 0
    THEN <<Head(sorted)>> \o sortInsertByCount(Tail(sorted), x)
    ELSE <<x>> \o sorted

RECURSIVE sortByRegionCount(_)
sortByRegionCount(array) ==
  IF Len(array) = 0 THEN <<>>
  ELSE sortInsertByCount(sortByRegionCount(SubSeq(array, 1, Len(array) - 1)),
                         array[Len(array)])

\* the `countries` Map of listCountries after the first n regions, as its
\* entries in insertion order
RECURSIVE countriesAfter(_)
countriesAfter(n) ==
  IF n = 0 THEN <<>>
  ELSE LET countries == countriesAfter(n - 1)
           location == allRegions[n].location
           existing == {i \in 1..Len(countries) :
                          countries[i].countryCode = location.countryCode}
       IN  IF existing # {}
             THEN [i \in 1..Len(countries) |->
                     IF i \in existing
                       THEN [countries[i] EXCEPT !.count = @ + 1]
                       ELSE countries[i]]
             ELSE Append(countries,
                         [countryCode |-> location.countryCode,
                          country |-> location.country, count |-> 1])

\* listCountries()
listCountries ==
  LET countries == countriesAfter(Len(allRegions))
  IN  sortByRegionCount(
        [i \in 1..Len(countries) |->
           [countryCode |-> countries[i].countryCode,
            country |-> countries[i].country,
            regionCount |-> countries[i].count]])

\* the characters of a country code, as a template literal writes them
characters(countryCode) ==
  IF countryCode = "DE" THEN <<"D", "E">>
  ELSE IF countryCode = "FR" THEN <<"F", "R">>
  ELSE <<"U", "S">>

\* key.split('-')[0]: the key up to its first hyphen
RECURSIVE splitFirst(_)
splitFirst(key) ==
  IF Len(key) = 0 \/ Head(key) = "-" THEN <<>>
  ELSE <<Head(key)>> \o splitFirst(Tail(key))

\* Set.prototype.add on a Set kept in insertion order
setAdd(set, x) == IF includes(set, x) THEN set ELSE Append(set, x)

\* the `cities` Map of listCities after the first n regions, as its entries
\* in insertion order
RECURSIVE citiesAfter(_)
citiesAfter(n) ==
  IF n = 0 THEN <<>>
  ELSE LET cities == citiesAfter(n - 1)
           region == allRegions[n]
           key == region.location.city \o <<"-">>
                    \o characters(region.location.countryCode)
           existing == {i \in 1..Len(cities) : cities[i].key = key}
       IN  IF existing # {}
             THEN [i \in 1..Len(cities) |->
                     IF i \in existing
                       THEN [cities[i] EXCEPT
                               !.providers = setAdd(@, region.provider),
                               !.count = @ + 1]
                       ELSE cities[i]]
             ELSE Append(cities,
                         [key |-> key, country |-> region.location.country,
                          providers |-> <<region.provider>>, count |-> 1])

\* listCities()
listCities ==
  LET cities == citiesAfter(Len(allRegions))
  IN  sortByRegionCount(
        [i \in 1..Len(cities) |->
           [city |-> splitFirst(cities[i].key),
            country |-> cities[i].country,
            providers |-> cities[i].providers,
            regionCount |-> cities[i].count]])

\* the grouping views of data/index.ts, each key with its regions in order
getRegionsByProvider ==
  [provider \in {allRegions[i].provider : i \in 1..Len(allRegions)} |->
     SelectSeq(allRegions, LAMBDA region : region.provider = provider)]

getRegionsByCountry ==
  [countryCode \in {allRegions[i].location.countryCode : i \in 1..Len(allRegions)} |->
     SelectSeq(allRegions, LAMBDA region : region.location.countryCode = countryCode)]

getRegionsByContinent ==
  [continent \in {allRegions[i].location.continent : i \in 1..Len(allRegions)} |->
     SelectSeq(allRegions, LAMBDA region : region.location.continent = continent)]

\* servicesGpu, were the presence of a services block enough
servicesBlock(r) == IsSome(r.services)

\* r.services?.gpu, as a condition
servicesGpu(r) ==
  /\ IsSome(r.services)
  /\ IsSome(Get(r.services).gpu)
  /\ Get(Get(r.services).gpu)

\* r.sustainability?.carbonNeutral, as a condition
sustainabilityCarbonNeutral(r) ==
  /\ IsSome(r.sustainability)
  /\ IsSome(Get(r.sustainability).carbonNeutral)
  /\ Get(Get(r.sustainability).carbonNeutral)

\* getStatistics()
getStatistics ==
  LET byProvider == getRegionsByProvider
      byCountry == getRegionsByCountry
      byContinent == getRegionsByContinent
  IN  [totalRegions |-> Len(allRegions),
       totalProviders |-> Len(providers),
       byProvider |-> [k \in DOMAIN byProvider |-> Len(byProvider[k])],
       byCountry |-> [k \in DOMAIN byCountry |-> Len(byCountry[k])],
       byContinent |-> [k \in DOMAIN byContinent |-> Len(byContinent[k])],
       byRegionType |->
         countsAfter([i \in 1..Len(allRegions) |-> allRegions[i].regionType],
                     Len(allRegions)),
       gpuRegions |-> Len(SelectSeq(allRegions, servicesGpu)),
       carbonNeutralRegions |->
         Len(SelectSeq(allRegions, sustainabilityCarbonNeutral))]

\* ------------------------------------------------------------------------
\* Calls.  The engine is synchronous: a call runs to completion and returns
\* before the next one starts.
\* ------------------------------------------------------------------------

OptionalFilters == {None} \cup {Some(f) : f \in Filters}

CertificationLists == {<<>>, <<"HIPAA">>, <<"HIPAA", "SOC2">>, <<"SOC2", "SOC2">>}

ListRegions ==
  \E filter \in OptionalFilters :
    /\ call = NoCall
    /\ call' = [NoCall EXCEPT !.op = "listRegions", !.filter = filter]
    /\ result' = listRegions(filter)
    /\ UNCHANGED modules

FindCompliantRegions ==
  \E certifications \in CertificationLists,
     filter \in {None} \cup {Some(f) : f \in FiltersUpTo(1)} :
    /\ call = NoCall
    /\ call' = [NoCall EXCEPT !.op = "findCompliantRegions",
                              !.certifications = certifications,
                              !.filter = filter]
    /\ result' = findCompliantRegions(certifications, filter)
    /\ UNCHANGED modules

MaxDistances == {None, Some(-1), Some(0), Some(1), Some(479)}

\* the largest limit of the model
MaxLimit == 2

Limits == {None} \cup {Some(n) : n \in (-1)..MaxLimit}

NearbyFilters ==
  {None,
   Some([EmptyFilter EXCEPT !.hasGpu = Some(TRUE)]),
   Some([EmptyFilter EXCEPT !.providers = Some(<<gcp, scaleway>>)])}

FindNearbyRegions ==
  \E point \in SearchPoints, maxDistanceKm \in MaxDistances,
     limit \in Limits, filter \in NearbyFilters :
    /\ call = NoCall
    /\ call' = [NoCall EXCEPT !.op = "findNearbyRegions",
                              !.latitude = point[1], !.longitude = point[2],
                              !.maxDistanceKm = maxDistanceKm,
                              !.limit = limit, !.filter = filter]
    /\ result' = findNearbyRegions(call')
    /\ allRegions' = allRegionsAfterSort(call')
    /\ UNCHANGED besidesAllRegions

\* the queries of the model: the empty query, queries in either case, a
\* provider identifier, words of provider names, a query matching nothing
Queries ==
  {<<>>, <<"f", "r", "a">>, <<"F", "R", "A", "N", "K">>, <<"-", "1">>,
   aws, <<"a", "m", "a", "z", "o", "n">>, <<"L", "a", "b", "s">>, <<"z", "z">>}

SearchFilters ==
  {None,
   Some(EmptyFilter),
   Some([EmptyFilter EXCEPT !.providers = Some(<<aws>>)]),
   Some([EmptyFilter EXCEPT !.providers = Some(<<gcp, scaleway>>)])}

SearchRegions ==
  \E query \in Queries, filter \in SearchFilters :
    /\ call = NoCall
    /\ call' = [NoCall EXCEPT !.op = "searchRegions",
                              !.query = query, !.filter = filter]
    /\ result' = searchRegions(query, filter)
    /\ UNCHANGED modules

\* the result has been handed to the caller; the engine awaits the next call
Return ==
  /\ call # NoCall
  /\ call' = NoCall
  /\ result' = <<>>
  /\ UNCHANGED modules

Next ==
  \/ ListRegions
  \/ FindCompliantRegions
  \/ FindNearbyRegions
  \/ SearchRegions
  \/ Return

Spec == Init /\ [][Next]_vars

\* ------------------------------------------------------------------------
\* Calls of the GPU query and of the aggregations, over the wider catalog
\* ------------------------------------------------------------------------

\* the gpuType arguments: absent, empty, and substrings in either letter case
GpuTypes ==
  {None, Some(<<>>), Some(<<"H", "1", "0", "0">>), Some(<<"h", "1", "0", "0">>),
   Some(<<"A", "1", "0", "0">>), Some(<<"V", "1", "0", "0">>)}

\* the filter arguments of findGpuRegions; the last asks for no GPU
GpuFilters ==
  {None, Some(EmptyFilter),
   Some([EmptyFilter EXCEPT !.countryCodes = Some(<<"DE">>)]),
   Some([EmptyFilter EXCEPT !.hasGpu = Some(FALSE)])}

FindGpuRegions ==
  \E gpuType \in GpuTypes, filter \in GpuFilters :
    /\ call = NoCall
    /\ call' = [NoCall EXCEPT !.op = "findGpuRegions", !.gpuType = gpuType,
                              !.filter = filter]
    /\ result' = findGpuRegions(gpuType, filter)
    /\ UNCHANGED modules

\* the scopes of compareProviderCoverage: absent, empty, met and unmet
CountryCodes == {None, Some(""), Some("DE"), Some("FR"), Some("JP")}

Continents == {None, Some(""), Some("europe"), Some("asia")}

CompareProviderCoverage ==
  \E countryCode \in CountryCodes, continent \in Continents :
    /\ call = NoCall
    /\ call' = [NoCall EXCEPT !.op = "compareProviderCoverage",
                              !.countryCode = countryCode,
                              !.continent = continent]
    /\ result' = compareProviderCoverage(countryCode, continent)
    /\ UNCHANGED modules

ListCountries ==
  /\ call = NoCall
  /\ call' = [NoCall EXCEPT !.op = "listCountries"]
  /\ result' = listCountries
  /\ UNCHANGED modules

ListCities ==
  /\ call = NoCall
  /\ call' = [NoCall EXCEPT !.op = "listCities"]
  /\ result' = listCities
  /\ UNCHANGED modules

GetStatistics ==
  /\ call = NoCall
  /\ call' = [NoCall EXCEPT !.op = "getStatistics"]
  /\ result' = getStatistics
  /\ UNCHANGED modules

\* the criteria whose value is degenerate: an empty list, false, an empty
\* string, a threshold of zero or less
DegenerateCriteria ==
  {[EmptyFilter EXCEPT ![k] = Some(<<>>)] :
     k \in {"providers", "tiers", "countryCodes", "continents", "compliance",
            "status", "regionTypes"}}
    \cup {[EmptyFilter EXCEPT ![k] = Some(FALSE)] : k \in {"carbonNeutral", "hasGpu"}}
    \cup {[EmptyFilter EXCEPT !.dataResidency = Some("")]}
    \cup {[EmptyFilter EXCEPT !.minAvailabilityZones = Some(v)] : v \in {-1, 0}}

\* a degenerate criterion alone, or beside a criterion that constrains
DegenerateFilters ==
  {Spread(f, g) :
     f \in {EmptyFilter,
            [EmptyFilter EXCEPT !.countryCodes = Some(<<"DE">>)],
            [EmptyFilter EXCEPT !.minAvailabilityZones = Some(2)]},
     g \in DegenerateCriteria}

ListRegionsDegenerate ==
  \E filter \in DegenerateFilters :
    /\ call = NoCall
    /\ call' = [NoCall EXCEPT !.op = "listRegions", !.filter = Some(filter)]
    /\ result' = listRegions(Some(filter))
    /\ UNCHANGED modules

FindCompliantRegionsDegenerate ==
  \E filter \in {None} \cup {Some(f) : f \in DegenerateFilters} :
    /\ call = NoCall
    /\ call' = [NoCall EXCEPT !.op = "findCompliantRegions", !.filter = filter]
    /\ result' = findCompliantRegions(<<>>, filter)
    /\ UNCHANGED modules

InitCatalog ==
  /\ allRegions \in CatalogCollections
  /\ remote = Unreachable
  /\ Loaded

NextCatalog ==
  \/ FindGpuRegions
  \/ CompareProviderCoverage
  \/ ListCountries
  \/ ListCities
  \/ GetStatistics
  \/ ListRegionsDegenerate
  \/ FindCompliantRegionsDegenerate
  \/ Return

SpecCatalog == InitCatalog /\ [][NextCatalog]_vars

\* ------------------------------------------------------------------------
\* The loader (remote.ts), the store (store.ts), the lookups and main()
\* ------------------------------------------------------------------------

CACHE_TTL == 60 * 60 * 1000

\* the bundled fallback of fetchRegionData
bundledData ==
  [regions |-> allRegions, providers |-> Some(providers),
   metadata |-> Some(dataMetadata), source |-> "bundled"]

\* the object fetchRegionData returns for a remote body
remoteData(body) ==
  [regions |-> body.regions.items, providers |-> body.providers,
   metadata |-> body.metadata, source |-> "remote"]

\* cacheIsFresh, were an entry still fresh when exactly CACHE_TTL old
cacheIsFreshAtExpiry ==
  IsSome(cachedData) /\ now - Get(cachedData).fetchedAt <= CACHE_TTL

\* the cache check at the head of fetchRegionData
cacheIsFresh ==
  IsSome(cachedData) /\ now - Get(cachedData).fetchedAt < CACHE_TTL

\* the try block throws: fetch rejects or is aborted, the status is not ok,
\* the body does not parse, or the validation of line 69 fails
tryBlockThrows(response) ==
  \/ response.kind # "json"
  \/ response.body.regions.kind # "array"

\* what fetchRegionData resolves with once the request has come to `response`
fetchRegionData(response) ==
  IF tryBlockThrows(response) THEN bundledData ELSE remoteData(response.body)

\* initializeStore(data): six assignments in a row; the last one throws a
\* TypeError when data.providers is undefined, the first five having been made
initializeStore(data) ==
  LET assigned ==
        [store EXCEPT !.regions = data.regions,
                      !.providers = data.providers,
                      !.metadata = data.metadata,
                      !.source = data.source,
                      !.regionMap = newMap(data.regions)]
  IN  IF IsSome(data.providers)
        THEN [assigned EXCEPT !.providerMap = newMap(Get(data.providers))]
        ELSE assigned

\* the lookups of the engine, on the tables of data/index.ts
getRegion(id) == mapGet(newMap(allRegions), id)

listProviders(tier) ==
  IF ~IsSome(tier) THEN providers
  ELSE SelectSeq(providers, LAMBDA p : p.tier = Get(tier))

\* the lookups of the store
getRegionById(id) == mapGet(store.regionMap, id)

getProviderById(id) == mapGet(store.providerMap, id)

\* the grouping views of the store, each key with its regions in order
storeRegionsByProvider ==
  [provider \in {store.regions[i].provider : i \in 1..Len(store.regions)} |->
     SelectSeq(store.regions, LAMBDA region : region.provider = provider)]

storeRegionsByCountry ==
  [countryCode \in {store.regions[i].location.countryCode :
                      i \in 1..Len(store.regions)} |->
     SelectSeq(store.regions,
               LAMBDA region : region.location.countryCode = countryCode)]

storeRegionsByContinent ==
  [continent \in {store.regions[i].location.continent :
                    i \in 1..Len(store.regions)} |->
     SelectSeq(store.regions,
               LAMBDA region : region.location.continent = continent)]

\* the get_region case of the tool handler
get_region(id) ==
  LET region == getRegion(id)
  IN  IF ~IsSome(region)
        THEN [content |-> <<"Region not found: ", id>>, isError |-> Some(TRUE)]
        ELSE [content |-> <<"JSON.stringify", Get(region)>>, isError |-> None]

\* main(): connects the transport, after which tool calls are served
Main ==
  /\ ~serving
  /\ serving' = TRUE
  /\ UNCHANGED <<allRegions, providers, call, result, store, cachedData, now,
                 remote, fetching>>

\* the most often the clock reaches a half hour
MaxClock == 2

\* the delay of setTimeout(() => controller.abort(), 5000)
FETCH_TIMEOUT == 5000

HalfHour == CACHE_TTL \div 2

\* the request in flight waits for fetch to resolve, its timer armed
awaitingFetch == IsSome(fetching) /\ Get(fetching).awaiting = "fetch"

\* the request in flight waits for response.json() to resolve, its timer
\* cleared
awaitingJson == IsSome(fetching) /\ Get(fetching).awaiting = "json"

\* the clock advances to the next half hour, between calls; a timer that is
\* armed fires before
Tick ==
  /\ call = NoCall
  /\ ~awaitingFetch
  /\ now < MaxClock * HalfHour
  /\ now' = ((now \div HalfHour) + 1) * HalfHour
  /\ UNCHANGED <<allRegions, providers, call, result, store, cachedData,
                 serving, remote, fetching>>

\* the clock advances to the time the armed timer is due
TimerDue ==
  /\ awaitingFetch
  /\ now < Get(fetching).startedAt + FETCH_TIMEOUT
  /\ now' = Get(fetching).startedAt + FETCH_TIMEOUT
  /\ UNCHANGED <<allRegions, providers, call, result, store, cachedData,
                 serving, remote, fetching>>

\* fetchRegionData() up to its first await, called on a half hour: a fresh
\* cache answers at once, otherwise the timer is armed and the request sent
\* (one request in flight at a time)
FetchStart ==
  /\ call = NoCall
  /\ ~IsSome(fetching)
  /\ now % HalfHour = 0
  /\ IF cacheIsFresh
       THEN /\ call' = [NoCall EXCEPT !.op = "fetchRegionData"]
            /\ result' = remoteData(Get(cachedData).data)
            /\ UNCHANGED fetching
       ELSE /\ fetching' = Some([startedAt |-> now, awaiting |-> "fetch"])
            /\ UNCHANGED <<call, result>>
  /\ UNCHANGED <<allRegions, providers, store, cachedData, now, serving, remote>>

\* the timer fires while fetch is awaited: controller.abort() rejects fetch,
\* the catch clause returns the bundled data
FetchAborts ==
  /\ call = NoCall
  /\ awaitingFetch
  /\ now >= Get(fetching).startedAt + FETCH_TIMEOUT
  /\ fetching' = None
  /\ call' = [NoCall EXCEPT !.op = "fetchRegionData"]
  /\ result' = bundledData
  /\ UNCHANGED <<allRegions, providers, store, cachedData, now, serving, remote>>

\* fetch settles: it rejects, or resolves with the response's headers and
\* the timer is cleared; a status that is not ok throws, otherwise
\* response.json() is awaited
FetchResponds ==
  /\ call = NoCall
  /\ awaitingFetch
  /\ remote.kind # "timeout"
  /\ IF remote.kind \in {"networkError", "notOk"}
       THEN /\ fetching' = None
            /\ call' = [NoCall EXCEPT !.op = "fetchRegionData"]
            /\ result' = fetchRegionData(remote)
       ELSE /\ fetching' = Some([Get(fetching) EXCEPT !.awaiting = "json"])
            /\ UNCHANGED <<call, result>>
  /\ UNCHANGED <<allRegions, providers, store, cachedData, now, serving, remote>>

\* response.json() settles and the rest of fetchRegionData() runs; a body
\* that never finishes never settles it
FetchSettle ==
  /\ call = NoCall
  /\ awaitingJson
  /\ remote.kind # "stalled"
  /\ fetching' = None
  /\ call' = [NoCall EXCEPT !.op = "fetchRegionData"]
  /\ result' = fetchRegionData(remote)
  /\ cachedData' = IF tryBlockThrows(remote) THEN cachedData
                   ELSE Some([data |-> remote.body, fetchedAt |-> now])
  /\ UNCHANGED <<allRegions, providers, store, now, serving, remote>>

ClearCache ==
  /\ IsSome(cachedData)
  /\ cachedData' = None
  /\ UNCHANGED <<allRegions, providers, call, result, store, now, serving,
                 remote, fetching>>

\* initializeStore(data), data being the loader result just obtained
InitializeStore ==
  /\ call.op = "fetchRegionData"
  /\ store' = initializeStore(result)
  /\ call' = [call EXCEPT !.op = "initializeStore"]
  /\ UNCHANGED <<allRegions, providers, result, cachedData, now, serving,
                 remote, fetching>>

\* the identifiers looked up: of bundled regions, of remote ones, of none
RegionIds == {"aws-eu-central-1", "scaleway-fr-par", "lambda-us-east-1", "nowhere-1"}

ProviderIds == {aws, scaleway, lambda}

GetRegion ==
  \E id \in RegionIds :
    /\ call = NoCall
    /\ call' = [NoCall EXCEPT !.op = "getRegion", !.id = Some(id)]
    /\ result' = getRegion(id)
    /\ UNCHANGED modules

\* a get_region tool call, answered by the handler once the server serves
GetRegionTool ==
  \E id \in RegionIds :
    /\ serving
    /\ call = NoCall
    /\ call' = [NoCall EXCEPT !.op = "get_region", !.id = Some(id)]
    /\ result' = get_region(id)
    /\ UNCHANGED modules

\* a list_regions tool call without arguments
ListRegionsTool ==
  /\ serving
  /\ call = NoCall
  /\ call' = [NoCall EXCEPT !.op = "list_regions"]
  /\ result' = listRegions(None)
  /\ UNCHANGED modules

ListProviders ==
  \E tier \in {None, Some("hyperscaler")} :
    /\ call = NoCall
    /\ call' = [NoCall EXCEPT !.op = "listProviders", !.filter = tier]
    /\ result' = listProviders(tier)
    /\ UNCHANGED modules

GetRegionById ==
  \E id \in RegionIds :
    /\ call = NoCall
    /\ call' = [NoCall EXCEPT !.op = "getRegionById", !.id = Some(id)]
    /\ result' = getRegionById(id)
    /\ UNCHANGED modules

GetProviderById ==
  \E id \in ProviderIds :
    /\ call = NoCall
    /\ call' = [NoCall EXCEPT !.op = "getProviderById", !.id = Some(id)]
    /\ result' = getProviderById(id)
    /\ UNCHANGED modules

\* the bundled collection of the server runs
ServerCollections == {<<RegionA, RegionB>>}

InitServer ==
  /\ allRegions \in ServerCollections
  /\ remote \in Responses
  /\ Loaded

NextServer ==
  \/ Main
  \/ Tick
  \/ TimerDue
  \/ FetchStart
  \/ FetchAborts
  \/ FetchResponds
  \/ FetchSettle
  \/ ClearCache
  \/ InitializeStore
  \/ GetRegion
  \/ GetRegionTool
  \/ ListRegionsTool
  \/ ListProviders
  \/ GetRegionById
  \/ GetProviderById
  \/ Return

SpecServer == InitServer /\ [][NextServer]_vars

\* ------------------------------------------------------------------------
\* The callers of the engine
\* ------------------------------------------------------------------------

FindSustainableRegions ==
  \E filter \in {None} \cup {Some(f) : f \in FiltersUpTo(1)} :
    /\ call = NoCall
    /\ call' = [NoCall EXCEPT !.op = "findSustainableRegions", !.filter = filter]
    /\ result' = findSustainableRegions(filter)
    /\ UNCHANGED modules

\* the array a call returned: one of the arrays of data/index.ts, or an
\* array of its own
returnedArray(c) ==
  CASE c.op = "listRegions" ->
         IF IsSome(c.filter) THEN arrayFilter("allRegions") ELSE "allRegions"
    [] c.op = "listProviders" ->
         IF IsSome(c.filter) THEN arrayFilter("providers") ELSE "providers"
    [] c.op = "findNearbyRegions" ->
         LET withDistances == withDistancesArray(c)
             bounded == IF IsSome(c.maxDistanceKm) THEN arrayFilter(withDistances)
                        ELSE withDistances
         IN  IF IsSome(c.limit) THEN "own" ELSE bounded
    [] c.op \in {"findCompliantRegions", "findSustainableRegions",
                 "findGpuRegions", "searchRegions"} -> arrayFilter("allRegions")
    [] OTHER -> "own"

\* the operations that return an array
ArrayOperations ==
  {"listRegions", "listProviders", "findNearbyRegions", "findCompliantRegions",
   "findSustainableRegions", "findGpuRegions", "searchRegions",
   "listCountries", "listCities"}

\* Array.prototype.pop: the array without its last element
pop(array) == SubSeq(array, 1, Len(array) - 1)

\* the caller removes the last element of the array it was returned, which
\* may be one of the arrays of data/index.ts, and is done with it
CallerModifies ==
  /\ call.op \in ArrayOperations
  /\ Len(result) > 0
  /\ call' = NoCall
  /\ result' = <<>>
  /\ allRegions' = IF returnedArray(call) = "allRegions" THEN pop(result)
                   ELSE allRegions
  /\ providers' = IF returnedArray(call) = "providers" THEN pop(result)
                  ELSE providers
  /\ UNCHANGED <<store, cachedData, now, serving, remote, fetching>>

\* the collections the callers start from: full ones, RegionD and RegionB
\* first
CallerCollections ==
  {s \in RegionCollections : Len(s) = MaxRegions /\ s[1] = RegionD /\ s[2] = RegionB}

InitCallers ==
  /\ allRegions \in CallerCollections
  /\ remote = Unreachable
  /\ Loaded

NextCallers ==
  \/ ListRegions
  \/ ListProviders
  \/ SearchRegions
  \/ FindNearbyRegions
  \/ FindCompliantRegions
  \/ FindSustainableRegions
  \/ FindGpuRegions
  \/ CompareProviderCoverage
  \/ ListCountries
  \/ ListCities
  \/ GetStatistics
  \/ CallerModifies
  \/ Return

SpecCallers == InitCallers /\ [][NextCallers]_vars

\* ------------------------------------------------------------------------
\* The tool-call handler (index.ts)
\* ------------------------------------------------------------------------

\* a government region of A's provider in D's city
RegionG ==
  [RegionD EXCEPT !.id = "aws-us-gov-east-1", !.provider = aws,
                  !.regionType = "government",
                  !.displayName = <<"G", "o", "v", "C", "l", "o", "u", "d">>]

\* the collections the tools are called on
ToolCollections ==
  UNION {{s \in [1..n -> {RegionA, RegionB, RegionD, RegionG}] :
            \A i, j \in 1..n : s[i] = s[j] => i = j} :
         n \in 0..MaxRegions}

\* request.params.arguments: every argument a tool reads, and regionTypes
NoArguments ==
  [providers |-> None, tiers |-> None, countryCodes |-> None,
   continents |-> None, compliance |-> None, carbonNeutral |-> None,
   hasGpu |-> None, governmentCloud |-> None, minAvailabilityZones |-> None,
   regionTypes |-> None, id |-> None, tier |-> None, provider |-> None,
   latitude |-> None, longitude |-> None, maxDistanceKm |-> None,
   limit |-> None, query |-> None, certifications |-> None,
   gpuType |-> None, countryCode |-> None, continent |-> None]

\* the filter the handler builds from the named arguments: each argument
\* given becomes a property of the filter
filterOf(args, names) ==
  [k \in DOMAIN EmptyFilter \cup {"governmentCloud"} |->
     IF k \in names THEN args[k] ELSE None]

\* Object.keys(filter).length > 0 ? filter : undefined
filterOrUndefined(filter) ==
  IF \E k \in DOMAIN filter : IsSome(filter[k]) THEN Some(filter) ELSE None

\* getProviderRegions(providerId); no region has the provider undefined
getProviderRegions(providerId) ==
  IF ~IsSome(providerId) THEN <<>>
  ELSE SelectSeq(allRegions, LAMBDA r : r.provider = Get(providerId))

\* the search find_nearby_regions builds: a filter only for providers given
\* or a truthy hasGpu
searchOf(args) ==
  [NoCall EXCEPT
     !.latitude = Get(args.latitude), !.longitude = Get(args.longitude),
     !.maxDistanceKm = args.maxDistanceKm, !.limit = args.limit,
     !.filter = IF IsSome(args.providers) \/ args.hasGpu = Some(TRUE)
                  THEN Some(filterOf([args EXCEPT !.hasGpu =
                                        IF args.hasGpu = Some(TRUE) THEN Some(TRUE)
                                        ELSE None],
                                     {"providers", "hasGpu"}))
                  ELSE None]

\* findCompliantRegions(certifications, filter?) with certifications that
\* may be undefined: {...filter, compliance: undefined} requires nothing
findCompliantRegionsOf(certifications, filter) ==
  IF IsSome(certifications) THEN findCompliantRegions(Get(certifications), filter)
  ELSE applyFilters(allRegions,
                    [(IF IsSome(filter) THEN Get(filter) ELSE EmptyFilter)
                       EXCEPT !.compliance = None])

\* { content: [{ type: 'text', text: JSON.stringify(value, null, 2) }] }
contentOf(value) == [content |-> <<"JSON.stringify", value>>, isError |-> None]

\* catchClause, were the exception to leave the handler: no response
catchClauseRethrows(message) == [content |-> <<>>, isError |-> None]

\* catch (error): { content: [{ text: `Error: ${error.message}` }], isError: true }
catchClause(message) == [content |-> <<"Error: ", message>>, isError |-> Some(TRUE)]

\* what the switch throws, if it throws: searchRegions calls toLowerCase on
\* the query, a TypeError when the query is undefined
switchThrows(name, args) ==
  IF name = "search_regions" /\ ~IsSome(args.query)
    THEN Some("Cannot read properties of undefined (reading 'toLowerCase')")
    ELSE None

\* what the switch returns when it does not throw
switchReturns(name, args) ==
  CASE name = "list_regions" ->
         contentOf(listRegions(filterOrUndefined(
           filterOf(args, {"providers", "tiers", "countryCodes", "continents",
                           "compliance", "carbonNeutral", "hasGpu",
                           "governmentCloud", "minAvailabilityZones"}))))
    [] name = "get_region" ->
         IF IsSome(args.id) THEN get_region(Get(args.id))
         ELSE [content |-> <<"Region not found: ", "undefined">>,
               isError |-> Some(TRUE)]
    [] name = "list_providers" -> contentOf(listProviders(args.tier))
    [] name = "get_provider_regions" -> contentOf(getProviderRegions(args.provider))
    [] name = "find_nearby_regions" -> contentOf(findNearbyRegions(searchOf(args)))
    [] name = "search_regions" ->
         contentOf(searchRegions(Get(args.query),
                                 IF IsSome(args.providers)
                                   THEN Some(filterOf(args, {"providers"}))
                                   ELSE None))
    [] name = "get_statistics" -> contentOf(getStatistics)
    [] name = "find_compliant_regions" ->
         contentOf(findCompliantRegionsOf(
           args.certifications,
           filterOrUndefined(filterOf(args, {"providers", "countryCodes"}))))
    [] name = "find_sustainable_regions" ->
         contentOf(findSustainableRegions(
           filterOrUndefined(filterOf(args, {"providers", "continents"}))))
    [] name = "find_gpu_regions" ->
         contentOf(findGpuRegions(
           args.gpuType,
           filterOrUndefined(filterOf(args, {"providers", "continents"}))))
    [] name = "compare_provider_coverage" ->
         contentOf(compareProviderCoverage(args.countryCode, args.continent))
    [] name = "list_countries" -> contentOf(listCountries)
    [] name = "list_cities" -> contentOf(listCities)
    [] OTHER -> [content |-> <<"Unknown tool: ", name>>, isError |-> Some(TRUE)]

\* the handler: try { switch (name) ... } catch (error) ...
callTool(name, args) ==
  IF IsSome(switchThrows(name, args)) THEN catchClause(Get(switchThrows(name, args)))
  ELSE switchReturns(name, args)

\* allRegions once the handler has answered
allRegionsAfterTool(name, args) ==
  IF name = "find_nearby_regions" THEN allRegionsAfterSort(searchOf(args))
  ELSE allRegions

\* the tool calls of the model: required arguments present and absent,
\* arguments the schema lists and one the README documents, a tool that
\* does not exist
ToolCalls ==
  {<<"list_regions", args>> :
     args \in {NoArguments,
               [NoArguments EXCEPT !.governmentCloud = Some(TRUE)],
               [NoArguments EXCEPT !.governmentCloud = Some(FALSE)],
               [NoArguments EXCEPT !.governmentCloud = Some(TRUE),
                                   !.providers = Some(<<aws>>)],
               [NoArguments EXCEPT !.regionTypes = Some(<<"government", "sovereign">>)],
               [NoArguments EXCEPT !.regionTypes = Some(<<"government">>),
                                   !.hasGpu = Some(TRUE)],
               [NoArguments EXCEPT !.tiers = Some(<<"hyperscaler">>)],
               [NoArguments EXCEPT !.minAvailabilityZones = Some(2)]}}
    \cup {<<"get_region", [NoArguments EXCEPT !.id = id]>> :
            id \in {None, Some("aws-us-gov-east-1"), Some("aws-us-east-9")}}
    \cup {<<"list_providers", [NoArguments EXCEPT !.tier = tier]>> :
            tier \in {None, Some("hyperscaler")}}
    \cup {<<"get_provider_regions", [NoArguments EXCEPT !.provider = provider]>> :
            provider \in {None, Some(aws)}}
    \cup {<<"find_nearby_regions",
            [NoArguments EXCEPT !.latitude = Some(point[1]),
                                !.longitude = Some(point[2]),
                                !.hasGpu = hasGpu, !.limit = limit]>> :
            point \in SearchPoints, hasGpu \in {None, Some(FALSE), Some(TRUE)},
            limit \in {None, Some(1)}}
    \cup {<<"search_regions", [NoArguments EXCEPT !.query = query,
                                                 !.providers = ps]>> :
            query \in {None, Some(<<"g", "o", "v">>)}, ps \in {None, Some(<<aws>>)}}
    \cup {<<"find_compliant_regions",
            [NoArguments EXCEPT !.certifications = certifications,
                                !.countryCodes = codes]>> :
            certifications \in {None, Some(<<"HIPAA">>)},
            codes \in {None, Some(<<"DE">>)}}
    \cup {<<"find_sustainable_regions", [NoArguments EXCEPT !.continents = cs]>> :
            cs \in {None, Some(<<"europe">>)}}
    \cup {<<"find_gpu_regions", [NoArguments EXCEPT !.gpuType = gpuType]>> :
            gpuType \in {None, Some(<<"h", "1", "0", "0">>)}}
    \cup {<<"compare_provider_coverage",
            [NoArguments EXCEPT !.countryCode = code]>> :
            code \in {None, Some("US")}}
    \cup {<<name, NoArguments>> :
            name \in {"get_statistics", "list_countries", "list_cities",
                      "delete_region"}}

CallTool ==
  \E toolCall \in ToolCalls :
    /\ call = NoCall
    /\ call' = [NoCall EXCEPT !.op = toolCall[1], !.arguments = Some(toolCall[2])]
    /\ result' = callTool(toolCall[1], toolCall[2])
    /\ allRegions' = allRegionsAfterTool(toolCall[1], toolCall[2])
    /\ UNCHANGED besidesAllRegions

InitTools ==
  /\ allRegions \in ToolCollections
  /\ remote = Unreachable
  /\ Loaded

NextTools ==
  \/ CallTool
  \/ Return

SpecTools == InitTools /\ [][NextTools]_vars

\* ------------------------------------------------------------------------
\* Properties of filtering
\* ------------------------------------------------------------------------

\* a list criterion that is supplied with at least one value
ListGiven(criterion) == IsSome(criterion) /\ Get(criterion) # <<>>

\* the region's availability-zone count, 0 when it has none
ZonesOf(r) == IF IsSome(r.availabilityZones) THEN Get(r.availabilityZones) ELSE 0

IsCarbonNeutral(r) ==
  \E s \in Range(r.sustainability) : \E flag \in Range(s.carbonNeutral) : flag

HasGpu(r) == \E s \in Range(r.services) : \E flag \in Range(s.gpu) : flag

\* the region has every certification of the list
HasAllCertifications(r, certifications) ==
  /\ IsSome(r.compliance)
  /\ Range(certifications) \subseteq Range(Get(r.compliance))

\* the region satisfies every criterion of the filter (the match rules of the
\* filter table, one conjunct per criterion)
Satisfies(r, f) ==
  /\ ListGiven(f.providers) => r.provider \in Range(Get(f.providers))
  /\ ListGiven(f.tiers) =>
       \E p \in Range(providers) :
         p.id = r.provider /\ p.tier \in Range(Get(f.tiers))
  /\ ListGiven(f.countryCodes) => r.location.countryCode \in Range(Get(f.countryCodes))
  /\ ListGiven(f.continents) => r.location.continent \in Range(Get(f.continents))
  /\ ListGiven(f.compliance) => HasAllCertifications(r, Get(f.compliance))
  /\ (\E flag \in Range(f.carbonNeutral) : flag) => IsCarbonNeutral(r)
  /\ (\E flag \in Range(f.hasGpu) : flag) => HasGpu(r)
  /\ ListGiven(f.status) => r.status \in Range(Get(f.status))
  /\ ListGiven(f.regionTypes) => r.regionType \in Range(Get(f.regionTypes))
  /\ (\E v \in Range(f.dataResidency) : v # "") =>
       \E s \in Range(r.sovereignty) : s.dataResidency = f.dataResidency
  /\ IsSome(f.minAvailabilityZones) => ZonesOf(r) >= Get(f.minAvailabilityZones)

\* the position of a region in a collection that holds it once
PositionIn(collection, x) == CHOOSE i \in 1..Len(collection) : collection[i] = x

\* the elements of `sub` appear in `collection`, in the same relative order
InOrderOf(sub, collection) ==
  /\ \A i \in 1..Len(sub) : includes(collection, sub[i])
  /\ \A i, j \in 1..Len(sub) :
       i < j => PositionIn(collection, sub[i]) < PositionIn(collection, sub[j])

\* the number of criteria a filter supplies
CriteriaOf(f) == Cardinality({k \in DOMAIN f : IsSome(f[k])})

\* C1: listRegions with a filter returns exactly the regions that satisfy
\* every criterion of the filter (AND across the criteria), in the relative
\* order they have in the region collection.
C1_FilterReturnsExactlyMatching ==
  (call.op = "listRegions" /\ IsSome(call.filter)) =>
    /\ Range(result) = {r \in Range(allRegions) : Satisfies(r, Get(call.filter))}
    /\ InOrderOf(result, allRegions)

\* C1 witness: a filter of two criteria keeps two regions of three
C1_Witness ==
  /\ call.op = "listRegions" /\ IsSome(call.filter)
  /\ ListGiven(Get(call.filter).countryCodes)
  /\ IsSome(Get(call.filter).minAvailabilityZones)
  /\ Len(allRegions) = 3 /\ Len(result) = 2

\* C2: listRegions with no filter, or with a filter that supplies no
\* criterion, returns the whole region collection in its order.
C2_NoCriteriaIsIdentity ==
  (/\ call.op = "listRegions"
   /\ \A f \in Range(call.filter) : CriteriaOf(f) = 0) =>
    result = allRegions

\* C2 witness: the empty filter object over a collection of three regions
C2_Witness ==
  /\ call.op = "listRegions"
  /\ call.filter = Some(EmptyFilter)
  /\ Len(allRegions) = 3 /\ Len(result) = 3

\* the certifications a call requires (none when it has no such criterion)
RequiredCertifications ==
  IF call.op = "findCompliantRegions" THEN call.certifications
  ELSE IF call.op = "listRegions" /\ IsSome(call.filter)
            /\ IsSome(Get(call.filter).compliance)
    THEN Get(Get(call.filter).compliance)
  ELSE <<>>

\* the criteria of the call other than compliance
OtherCriteria ==
  IF IsSome(call.filter)
    THEN [Get(call.filter) EXCEPT !.compliance = None]
    ELSE EmptyFilter

\* C3: when a non-empty list of certifications is required, every returned
\* region has all of them in its own compliance list, and every region that
\* has them all and satisfies the other criteria is returned.
C3_ComplianceIsAll ==
  (call.op \in {"findCompliantRegions", "listRegions"}
     /\ RequiredCertifications # <<>>) =>
    /\ \A r \in Range(result) : HasAllCertifications(r, RequiredCertifications)
    /\ \A r \in Range(allRegions) :
         (HasAllCertifications(r, RequiredCertifications)
            /\ Satisfies(r, OtherCriteria)) => r \in Range(result)

\* C3 witness: HIPAA and SOC2 are required; A (HIPAA, SOC2, PCI-DSS) is
\* returned and B (HIPAA only) is not
C3_Witness ==
  /\ call.op = "findCompliantRegions"
  /\ call.certifications = <<"HIPAA", "SOC2">>
  /\ RegionB \in Range(allRegions)
  /\ result = <<RegionA>>

\* ------------------------------------------------------------------------
\* Properties of findNearbyRegions
\* ------------------------------------------------------------------------

\* a returned entry without its distanceKm field
regionOf(entry) == [k \in DOMAIN entry \ {"distanceKm"} |-> entry[k]]

\* the regions of the collection that pass the filter of the call
Candidates ==
  {r \in Range(allRegions) : \A f \in Range(call.filter) : Satisfies(r, f)}

\* the rounded distance of a region from the search point of the call
DistanceOf(r) == distanceKmOf[<<call.latitude, call.longitude>>][coordinatesOf(r)]

\* C4: the result of findNearbyRegions is sorted by non-decreasing distanceKm,
\* and entries of equal distanceKm keep the relative order their regions
\* have in the region collection.
C4_SortedAndStable ==
  call.op = "findNearbyRegions" =>
    \A i, j \in 1..Len(result) :
      i < j =>
        /\ result[i].distanceKm <= result[j].distanceKm
        /\ result[i].distanceKm = result[j].distanceKm =>
             PositionIn(allRegions, regionOf(result[i]))
               < PositionIn(allRegions, regionOf(result[j]))

\* C4 witness: from central Paris, B (1 km) moves in front of A and C, which
\* tie at 479 km and keep their order
C4_Witness ==
  /\ call.op = "findNearbyRegions"
  /\ allRegions = <<RegionA, RegionB, RegionC>>
  /\ result = <<withDistance(RegionB, 1), withDistance(RegionA, 479),
                withDistance(RegionC, 479)>>

\* C5: with a maxDistanceKm bound and no limit, the result holds exactly the
\* candidate regions whose rounded distance is at most the bound.
C5_MaxDistanceInclusive ==
  (call.op = "findNearbyRegions" /\ IsSome(call.maxDistanceKm)
     /\ ~IsSome(call.limit)) =>
    /\ {regionOf(e) : e \in Range(result)}
         = {r \in Candidates : DistanceOf(r) <= Get(call.maxDistanceKm)}
    /\ \A e \in Range(result) :
         /\ e.distanceKm = DistanceOf(regionOf(e))
         /\ e.distanceKm <= Get(call.maxDistanceKm)

\* C5 witness: bound 1 from central Paris keeps B, at exactly 1 km, and
\* drops A
C5_Witness ==
  /\ call.op = "findNearbyRegions"
  /\ call.maxDistanceKm = Some(1) /\ ~IsSome(call.limit)
  /\ RegionA \in Range(allRegions)
  /\ result = <<withDistance(RegionB, 1)>>

\* the first n entries of a sequence, all of them when it has fewer
FirstEntries(s, n) ==
  IF n <= 0 THEN <<>> ELSE SubSeq(s, 1, IF n < Len(s) THEN n ELSE Len(s))

\* C6: when a limit is given, the result is the first `limit` entries of the
\* sorted, distance-bounded sequence (the result of the same call without the
\* limit), all of them when there are fewer.
C6_LimitTakesFirstEntries ==
  (call.op = "findNearbyRegions" /\ IsSome(call.limit)) =>
    result = FirstEntries(findNearbyRegions([call EXCEPT !.limit = None]),
                          Get(call.limit))

\* C7 as stated: whenever the search point is the coordinates of a region of
\* the collection, that region is in the result with distanceKm 0.
C7_CoLocatedAlwaysReturned ==
  call.op = "findNearbyRegions" =>
    \A r \in Range(allRegions) :
      coordinatesOf(r) = <<call.latitude, call.longitude>> =>
        withDistance(r, 0) \in Range(result)

\* the number of candidates at rounded distance 0
ZeroDistanceCount == Cardinality({r \in Candidates : DistanceOf(r) = 0})

\* C7 as amended: a region at the search point is in the result with
\* distanceKm 0 provided it passes the filter, maxDistanceKm is absent or at
\* least 0, and limit is absent or at least the number of candidates at
\* rounded distance 0.
C7_CoLocatedReturnedWhenAdmitted ==
  (/\ call.op = "findNearbyRegions"
   /\ \A bound \in Range(call.maxDistanceKm) : bound >= 0
   /\ \A limit \in Range(call.limit) : limit >= ZeroDistanceCount) =>
    \A r \in Candidates :
      coordinatesOf(r) = <<call.latitude, call.longitude>> =>
        withDistance(r, 0) \in Range(result)

\* C7 witness: searching at the coordinates of A and C with bound 0 and
\* limit 2 returns both at distance 0
C7_Witness ==
  /\ call.op = "findNearbyRegions"
  /\ <<call.latitude, call.longitude>> = coordinatesOf(RegionA)
  /\ call.maxDistanceKm = Some(0) /\ call.limit = Some(2)
  /\ RegionB \in Range(allRegions)
  /\ result = <<withDistance(RegionC, 0), withDistance(RegionA, 0)>>

\* the call of the scenario: latitude 48.8566, longitude 2.3522, limit 1,
\* over the collection of A (50.1, 8.7) and B (48.85, 2.35)
ParisScenario ==
  /\ call.op = "findNearbyRegions"
  /\ allRegions = <<RegionA, RegionB>>
  /\ call.latitude = 488566 /\ call.longitude = 23522
  /\ call.limit = Some(1)
  /\ ~IsSome(call.maxDistanceKm) /\ ~IsSome(call.filter)

\* C8 as stated: the scenario returns exactly B, with distanceKm 0.
C8_ParisAtZeroKm == ParisScenario => result = <<withDistance(RegionB, 0)>>

\* C8 as amended: the scenario returns exactly B, with distanceKm 1 (the
\* Haversine distance is 0.75 km, which rounds to 1).
C8_ParisAtOneKm == ParisScenario => result = <<withDistance(RegionB, 1)>>

\* C8 witness: the scenario has run and returned one entry
C8_Witness == ParisScenario /\ Len(result) = 1 /\ result[1].id = RegionB.id

\* ------------------------------------------------------------------------
\* Properties of searchRegions
\* ------------------------------------------------------------------------

\* q occurs in s at some offset, letter case ignored
ContainsIgnoringCase(s, q) ==
  \E offset \in 0..(Len(s) - Len(q)) :
    \A i \in 1..Len(q) :
      toLowerCaseChar(s[offset + i]) = toLowerCaseChar(q[i])

\* the five fields searchRegions looks into
SearchedFields(r) ==
  {r.displayName, r.regionCode, r.location.city, r.location.country, r.provider}

\* C9: searchRegions returns exactly the candidate regions of which at least
\* one of display name, region code, city, country name and provider
\* identifier contains the query, letter case ignored, in the relative order
\* of the region collection.
C9_SearchIsAnyFieldSubstring ==
  call.op = "searchRegions" =>
    /\ Range(result)
         = {r \in Candidates :
              \E field \in SearchedFields(r) : ContainsIgnoringCase(field, call.query)}
    /\ InOrderOf(result, allRegions)

\* C9 witness: the upper-case query FRANK finds C and A by display name and
\* city, and not B
C9_Witness ==
  /\ call.op = "searchRegions"
  /\ call.query = <<"F", "R", "A", "N", "K">>
  /\ allRegions = <<RegionC, RegionB, RegionA>>
  /\ result = <<RegionC, RegionA>>

\* C10: a region is returned whenever the query is a case-insensitive
\* substring of the display name its provider has in the provider table.
C10_SearchCoversProviderName ==
  call.op = "searchRegions" =>
    \A r \in Candidates :
      (\E p \in Range(providers) :
         p.id = r.provider /\ ContainsIgnoringCase(p.name, call.query))
        => r \in Range(result)

\* ------------------------------------------------------------------------
\* Properties of findGpuRegions and compareProviderCoverage
\* ------------------------------------------------------------------------

\* a GPU type is given: the argument is present and not the empty string
GpuTypeGiven == IsSome(call.gpuType) /\ Get(call.gpuType) # <<>>

\* the region's GPU model list has an entry containing q, letter case ignored
ListsGpuModel(r, q) ==
  \E s \in Range(r.services) : \E gpuTypes \in Range(s.gpuTypes) :
    \E g \in Range(gpuTypes) : ContainsIgnoringCase(g, q)

\* the criteria of a findGpuRegions call other than hasGpu
ExtraFilter ==
  IF IsSome(call.filter) THEN [Get(call.filter) EXCEPT !.hasGpu = None]
  ELSE EmptyFilter

\* C11: findGpuRegions returns only regions whose services.gpu flag is true;
\* it returns, in collection order, exactly the GPU regions that meet the
\* extra filter and, when a GPU type is given, whose gpuTypes list has at
\* least one entry containing it, letter case ignored (a GPU region without
\* a gpuTypes list is then left out).
C11_GpuRegionsMatchAnyModel ==
  call.op = "findGpuRegions" =>
    /\ \A r \in Range(result) : HasGpu(r)
    /\ InOrderOf(result, allRegions)
    /\ \A r \in Range(allRegions) :
         r \in Range(result) <=>
           /\ HasGpu(r)
           /\ Satisfies(r, ExtraFilter)
           /\ GpuTypeGiven => ListsGpuModel(r, Get(call.gpuType))

\* C11 witness: for "h100" the region listing A100 and H100 is returned,
\* while the one listing only A100 and the one listing nothing are not
C11_Witness ==
  /\ call.op = "findGpuRegions"
  /\ call.gpuType = Some(<<"h", "1", "0", "0">>)
  /\ allRegions = <<RegionE, RegionA, RegionF>>
  /\ result = <<RegionA>>

\* the scope criteria a compareProviderCoverage call gives
ScopeFilter ==
  [EmptyFilter EXCEPT
     !.countryCodes = IF call.countryCode \in {None, Some("")} THEN None
                      ELSE Some(<<Get(call.countryCode)>>),
     !.continents = IF call.continent \in {None, Some("")} THEN None
                    ELSE Some(<<Get(call.continent)>>)]

\* the regions that match every given scope
InScope == {r \in Range(allRegions) : Satisfies(r, ScopeFilter)}

\* the sum of a table of counts
RECURSIVE SumOf(_)
SumOf(counts) ==
  IF DOMAIN counts = {} THEN 0
  ELSE LET k == CHOOSE k \in DOMAIN counts : TRUE
       IN  counts[k] + SumOf([j \in DOMAIN counts \ {k} |-> counts[j]])

\* C12: the keys of compareProviderCoverage's result are exactly the
\* providers with at least one region in scope, each mapped to the number
\* of its regions in scope; no value is 0 and the values sum to the number
\* of regions in scope.
C12_CoverageCountsPerProvider ==
  call.op = "compareProviderCoverage" =>
    /\ DOMAIN result = {r.provider : r \in InScope}
    /\ \A p \in DOMAIN result :
         /\ result[p] = Cardinality({r \in InScope : r.provider = p})
         /\ result[p] # 0
    /\ SumOf(result) = Cardinality(InScope)

\* C12 witness: in Germany and Europe, two regions of aws; the provider of
\* the French region has no key
C12_Witness ==
  /\ call.op = "compareProviderCoverage"
  /\ call.countryCode = Some("DE")
  /\ call.continent = Some("europe")
  /\ RegionB \in Range(allRegions)
  /\ DOMAIN result = {aws}
  /\ result[aws] = 2

\* ------------------------------------------------------------------------
\* Properties of listCountries, listCities and getStatistics
\* ------------------------------------------------------------------------

\* the positions of the regions of a country code, and of a city in a country
InCountry(countryCode) ==
  {i \in 1..Len(allRegions) : allRegions[i].location.countryCode = countryCode}

InCity(city, countryCode) ==
  {i \in InCountry(countryCode) : allRegions[i].location.city = city}

\* the first position of a non-empty set of positions
FirstOf(positions) == CHOOSE i \in positions : \A j \in positions : i <= j

\* the entries are in descending order of regionCount
DescendingByCount(entries) ==
  \A i, j \in 1..Len(entries) :
    i < j => entries[i].regionCount >= entries[j].regionCount

\* the sum of the regionCount fields of the first n entries
RECURSIVE CountSum(_, _)
CountSum(entries, n) ==
  IF n = 0 THEN 0 ELSE entries[n].regionCount + CountSum(entries, n - 1)

\* C13: listCountries returns one entry per distinct country code, with the
\* country name of the first region seen with that code and the number of
\* regions with it, in descending order of count, entries of equal count in
\* first-seen order; the counts sum to the number of regions.
C13_CountriesCountedAndSorted ==
  call.op = "listCountries" =>
    /\ {result[i].countryCode : i \in 1..Len(result)}
         = {r.location.countryCode : r \in Range(allRegions)}
    /\ \A i, j \in 1..Len(result) :
         result[i].countryCode = result[j].countryCode => i = j
    /\ \A i \in 1..Len(result) :
         LET positions == InCountry(result[i].countryCode)
         IN  /\ result[i].country = allRegions[FirstOf(positions)].location.country
             /\ result[i].regionCount = Cardinality(positions)
    /\ DescendingByCount(result)
    /\ \A i, j \in 1..Len(result) :
         (i < j /\ result[i].regionCount = result[j].regionCount) =>
           FirstOf(InCountry(result[i].countryCode))
             < FirstOf(InCountry(result[j].countryCode))
    /\ CountSum(result, Len(result)) = Len(allRegions)

\* C13 witness: France is seen first but Germany, with two regions, comes
\* first; Germany carries the name its first region spells
C13_Witness ==
  /\ call.op = "listCountries"
  /\ allRegions = <<RegionB, RegionE, RegionA>>
  /\ result = <<[countryCode |-> "DE", country |-> Deutschland, regionCount |-> 2],
                [countryCode |-> "FR", country |-> France, regionCount |-> 1]>>

\* the distinct values of a list, in first-seen order
RECURSIVE Distinct(_)
Distinct(s) ==
  IF Len(s) = 0 THEN <<>>
  ELSE LET front == Distinct(SubSeq(s, 1, Len(s) - 1))
       IN  IF includes(front, s[Len(s)]) THEN front ELSE Append(front, s[Len(s)])

\* the distinct (city, country code) pairs of the collection
CityPairs ==
  {<<r.location.city, r.location.countryCode>> : r \in Range(allRegions)}

\* the providers of the regions of a pair, in collection order
ProvidersIn(pair) ==
  LET regions == SelectSeq(allRegions,
                           LAMBDA r : /\ r.location.city = pair[1]
                                      /\ r.location.countryCode = pair[2])
  IN  [i \in 1..Len(regions) |-> regions[i].provider]

\* C14: listCities returns exactly one entry per distinct (city, country
\* code) pair; its city field is the full city name (hyphens included), its
\* providers are the pair's providers de-duplicated in first-seen order, its
\* regionCount is the number of regions of the pair; the entries are in
\* descending order of count.
C14_OneEntryPerCityWithFullName ==
  call.op = "listCities" =>
    /\ \E pairs \in [1..Len(result) -> CityPairs] :
         /\ \A pair \in CityPairs : \E i \in 1..Len(result) : pairs[i] = pair
         /\ \A i, j \in 1..Len(result) : pairs[i] = pairs[j] => i = j
         /\ \A i \in 1..Len(result) :
              /\ result[i].city = pairs[i][1]
              /\ result[i].providers = Distinct(ProvidersIn(pairs[i]))
              /\ result[i].regionCount = Cardinality(InCity(pairs[i][1], pairs[i][2]))
    /\ DescendingByCount(result)

\* the sum of a table of counts is n and none of its values is 0
SumsTo(counts, n) ==
  /\ SumOf(counts) = n
  /\ \A k \in DOMAIN counts : counts[k] # 0

\* C15: getStatistics reports the number of regions and of providers; its
\* four tables each sum to the number of regions and hold no 0; gpuRegions
\* and carbonNeutralRegions count the regions whose flag is true.
C15_StatisticsAreConsistent ==
  call.op = "getStatistics" =>
    /\ result.totalRegions = Len(allRegions)
    /\ result.totalProviders = Len(providers)
    /\ SumsTo(result.byProvider, result.totalRegions)
    /\ SumsTo(result.byCountry, result.totalRegions)
    /\ SumsTo(result.byContinent, result.totalRegions)
    /\ SumsTo(result.byRegionType, result.totalRegions)
    /\ result.gpuRegions
         = Cardinality({i \in 1..Len(allRegions) : HasGpu(allRegions[i])})
    /\ result.carbonNeutralRegions
         = Cardinality({i \in 1..Len(allRegions) : IsCarbonNeutral(allRegions[i])})

\* C15 witness: three regions of two providers, one of them without a GPU
\* flag and not carbon neutral
C15_Witness ==
  /\ call.op = "getStatistics"
  /\ allRegions = <<RegionA, RegionE, RegionB>>
  /\ result.totalRegions = 3
  /\ result.byProvider[aws] = 2 /\ result.byProvider[scaleway] = 1
  /\ result.byRegionType["sovereign"] = 1
  /\ result.gpuRegions = 2
  /\ result.carbonNeutralRegions = 1

\* ------------------------------------------------------------------------
\* Properties of the store, the loader and the lookups
\* ------------------------------------------------------------------------

\* the record with the identifier in a table (the last one, should several
\* have it), not-found when the table has none
RecordWithId(table, id) ==
  LET at == {i \in 1..Len(table) : table[i].id = id}
  IN  IF at = {} THEN None
      ELSE Some(table[CHOOSE i \in at : \A j \in at : j <= i])

\* the provider table of the snapshot in the store, empty when it has none
SnapshotProviders == IF IsSome(store.providers) THEN Get(store.providers) ELSE <<>>

\* C16: whatever snapshots initializeStore has installed, a query-engine
\* operation computes from the snapshot now in the store: an unfiltered
\* region listing is its regions, a region lookup is its record with that
\* id, an unfiltered provider listing is its provider table.
C16_QueriesReadInstalledSnapshot ==
  /\ call.op = "list_regions" => result = store.regions
  /\ call.op = "getRegion" => result = RecordWithId(store.regions, Get(call.id))
  /\ (call.op = "listProviders" /\ call.filter = None) =>
       Some(result) = store.providers

\* the store a complete installation of a loader result makes
SnapshotOf(data) ==
  [regions |-> data.regions, providers |-> data.providers,
   metadata |-> data.metadata, source |-> data.source,
   regionMap |-> newMap(data.regions),
   providerMap |-> IF IsSome(data.providers) THEN newMap(Get(data.providers))
                   ELSE <<>>]

\* the results the loader can resolve with
LoaderResults == {fetchRegionData(response) : response \in Responses}

\* C17: in every state (a store reader can run in each of them) the six
\* fields of the store belong to one snapshot: the initial bundled one, or
\* the one a single initializeStore call installed.
C17_StoreIsOneSnapshot ==
  \/ store = bundledStore
  \/ \E data \in LoaderResults : store = SnapshotOf(data)

\* the remote URL serves a well-formed file
RemoteIsValid ==
  /\ remote.kind = "json"
  /\ remote.body.regions.kind = "array"
  /\ IsSome(remote.body.providers)
  /\ IsSome(remote.body.metadata)

\* C18: once the server serves tool calls, with the remote file reachable and
\* well-formed since startup, the store holds the remote data and a tool
\* call is answered from it.
C18_ServesWhatStartupFetched ==
  (serving /\ RemoteIsValid) =>
    /\ store.source = "remote"
    /\ store.regions = remote.body.regions.items
    /\ call.op = "list_regions" => result = remote.body.regions.items

\* C19: fetchRegionData resolves with the bundled data and source 'bundled'
\* whenever the request fails or the payload is malformed (a regions array
\* without providers or metadata included); a result of source 'remote'
\* carries a providers array and a metadata object.
C19_LoaderFallsBackOnAnyFailure ==
  call.op = "fetchRegionData" =>
    /\ ~RemoteIsValid => result = bundledData
    /\ result.source = "remote" =>
         IsSome(result.providers) /\ IsSome(result.metadata)

\* C20: a lookup by identifier returns the record with that identifier when
\* the snapshot has one and not-found otherwise; the get_region tool answers
\* not-found with the error 'Region not found: <id>' and isError, and a
\* found region with its JSON text.
C20_LookupFindsSnapshotRecord ==
  /\ call.op \in {"getRegion", "getRegionById"} =>
       result = RecordWithId(store.regions, Get(call.id))
  /\ call.op = "getProviderById" =>
       result = RecordWithId(SnapshotProviders, Get(call.id))
  /\ call.op = "get_region" =>
       LET found == RecordWithId(store.regions, Get(call.id))
       IN  IF IsSome(found)
             THEN result = [content |-> <<"JSON.stringify", Get(found)>>,
                            isError |-> None]
             ELSE result = [content |-> <<"Region not found: ", Get(call.id)>>,
                            isError |-> Some(TRUE)]

\* ------------------------------------------------------------------------
\* Properties of the tier criterion and of degenerate criterion values
\* ------------------------------------------------------------------------

\* the providers of the table with the identifier
Resolving(id) == {p \in Range(providers) : p.id = id}

\* the tiers the filter of the call asks for (none when it has no such
\* criterion)
RequiredTiers ==
  IF IsSome(call.filter) /\ ListGiven(Get(call.filter).tiers)
    THEN Range(Get(Get(call.filter).tiers))
    ELSE {}

\* the regions a call returned, without the distance findNearbyRegions adds
ReturnedRegions ==
  IF call.op = "findNearbyRegions" THEN {regionOf(e) : e \in Range(result)}
  ELSE Range(result)

\* C27: under a tier criterion no returned region has a provider that does
\* not resolve in the provider table, and a region whose provider resolves
\* (and that meets the other criteria) is returned exactly when the
\* provider's tier is one of the given tiers.
C27_UnresolvedProviderIsNoMatch ==
  (call.op \in {"listRegions", "findCompliantRegions", "findNearbyRegions",
                "searchRegions"}
     /\ RequiredTiers # {}) =>
    /\ \A r \in ReturnedRegions :
         \E p \in Resolving(r.provider) : p.tier \in RequiredTiers
    /\ call.op = "listRegions" =>
         \A r \in Range(allRegions) :
           (Resolving(r.provider) # {}
              /\ Satisfies(r, [Get(call.filter) EXCEPT !.tiers = None])) =>
             (r \in Range(result)
                <=> \E p \in Resolving(r.provider) : p.tier \in RequiredTiers)

\* C27 witness: the table does not hold lambda; asked for specialized and
\* regional providers, the lambda region is left out and the regional one
\* is returned
C27_Witness ==
  /\ call.op = "listRegions"
  /\ call.filter = Some([EmptyFilter EXCEPT !.tiers = Some(<<"specialized", "regional">>)])
  /\ Resolving(lambda) = {}
  /\ RegionD \in Range(allRegions)
  /\ result = <<RegionB>>

\* a criterion value that is degenerate: an empty list, false, or an empty
\* string
Degenerate(k, value) ==
  /\ IsSome(value)
  /\ CASE k \in {"carbonNeutral", "hasGpu"} -> Get(value) = FALSE
       [] k = "dataResidency" -> Get(value) = ""
       [] k = "minAvailabilityZones" -> FALSE
       [] OTHER -> Get(value) = <<>>

\* the filter without its degenerately valued criteria
WithoutDegenerate(f) ==
  [k \in DOMAIN f |->
     IF Degenerate(k, f[k]) THEN None ELSE f[k]]

\* C29: a criterion given an empty list, false or an empty string constrains
\* nothing: the call returns what it returns without that criterion; a
\* minAvailabilityZones of 0 or less, alone, admits every region.
C29_DegenerateValuesConstrainNothing ==
  /\ (call.op = "listRegions" /\ IsSome(call.filter)) =>
       /\ result = applyFilters(allRegions, WithoutDegenerate(Get(call.filter)))
       /\ (/\ CriteriaOf(WithoutDegenerate(Get(call.filter))) = 1
           /\ IsSome(Get(call.filter).minAvailabilityZones)
           /\ Get(Get(call.filter).minAvailabilityZones) <= 0) =>
            result = allRegions
  /\ (call.op = "findCompliantRegions" /\ call.certifications = <<>>) =>
       result = applyFilters(allRegions,
                             IF IsSome(call.filter)
                               THEN WithoutDegenerate(Get(call.filter))
                               ELSE EmptyFilter)

\* C29 witness: hasGpu: false beside a country criterion returns the
\* regions of the country, the one without GPUs included
C29_Witness ==
  /\ call.op = "listRegions"
  /\ call.filter = Some([EmptyFilter EXCEPT !.hasGpu = Some(FALSE),
                                           !.countryCodes = Some(<<"DE">>)])
  /\ \E r \in Range(result) : HasGpu(r)
  /\ \E r \in Range(result) : ~HasGpu(r)
  /\ \E r \in Range(allRegions) : r \notin Range(result)

\* ------------------------------------------------------------------------
\* Properties of the engine towards its callers
\* ------------------------------------------------------------------------

\* the operations that only read
ReadOperations ==
  {"listRegions", "searchRegions", "findNearbyRegions", "findCompliantRegions",
   "findSustainableRegions", "findGpuRegions", "compareProviderCoverage",
   "listCountries", "listCities", "getStatistics"}

\* what the call returns in the current state
outputOf(c) ==
  CASE c.op = "listRegions" -> listRegions(c.filter)
    [] c.op = "searchRegions" -> searchRegions(c.query, c.filter)
    [] c.op = "findNearbyRegions" -> findNearbyRegions(c)
    [] c.op = "findCompliantRegions" -> findCompliantRegions(c.certifications, c.filter)
    [] c.op = "findSustainableRegions" -> findSustainableRegions(c.filter)
    [] c.op = "findGpuRegions" -> findGpuRegions(c.gpuType, c.filter)
    [] c.op = "compareProviderCoverage" ->
         compareProviderCoverage(c.countryCode, c.continent)
    [] c.op = "listCountries" -> listCountries
    [] c.op = "listCities" -> listCities
    [] c.op = "getStatistics" -> getStatistics

\* C21: a read operation leaves the region collection (its order and every
\* record) and the provider table as they were, and the same call made
\* again right after it returns the same output.
C21_ReadsLeaveSnapshotAlone ==
  /\ [][(call = NoCall /\ call'.op \in ReadOperations) =>
          (allRegions' = allRegions /\ providers' = providers)]_vars
  /\ [](call.op \in ReadOperations => result = outputOf(call))

\* C21 witness: findNearbyRegions over the whole collection returned the
\* regions in another order than the collection's, which is as it was
C21_Witness ==
  /\ call.op = "findNearbyRegions"
  /\ call.filter = None /\ call.maxDistanceKm = None /\ call.limit = None
  /\ allRegions = <<RegionD, RegionB, RegionA>>
  /\ [i \in 1..Len(result) |-> regionOf(result[i])] = <<RegionB, RegionA, RegionD>>

\* C28: whatever a caller does to the collection it was returned, the
\* region collection and the provider table stay as they are: every
\* operation returns a collection of its own.
C28_ResultsAreCallersOwn ==
  [][CallerModifies => (allRegions' = allRegions /\ providers' = providers)]_vars

\* ------------------------------------------------------------------------
\* Properties of the tool-call handler
\* ------------------------------------------------------------------------

\* the tools of the server
ToolNames ==
  {"list_regions", "get_region", "list_providers", "get_provider_regions",
   "find_nearby_regions", "search_regions", "get_statistics",
   "find_compliant_regions", "find_sustainable_regions", "find_gpu_regions",
   "compare_provider_coverage", "list_countries", "list_cities"}

\* a tool call has been answered
Answered == IsSome(call.arguments)

\* the value a content response serialises
Serialised == result.content[2]

\* C22: list_regions with governmentCloud true returns only government
\* cloud regions.
C22_GovernmentCloudOnly ==
  (Answered /\ call.op = "list_regions"
     /\ Get(call.arguments).governmentCloud = Some(TRUE)) =>
    \A i \in 1..Len(Serialised) : Serialised[i].regionType = "government"

\* C23: list_regions with regionTypes returns only regions whose
\* regionType is one of the listed types.
C23_RegionTypesOnly ==
  (Answered /\ call.op = "list_regions"
     /\ IsSome(Get(call.arguments).regionTypes)) =>
    \A i \in 1..Len(Serialised) :
      Serialised[i].regionType \in Range(Get(Get(call.arguments).regionTypes))

\* C30: the handler answers every call, whatever the tool name and the
\* arguments, with a content response or with an isError response reading
\* 'Unknown tool: <name>', 'Region not found: <id>' or 'Error: <message>',
\* and leaves the region collection and the provider table as they were.
C30_HandlerAlwaysAnswers ==
  /\ [](Answered =>
          /\ Len(result.content) = 2
          /\ result.content[1] \in {"JSON.stringify", "Unknown tool: ",
                                     "Region not found: ", "Error: "}
          /\ (result.isError = Some(TRUE)) <=> (result.content[1] # "JSON.stringify")
          /\ (result.isError = None) <=> (result.content[1] = "JSON.stringify")
          /\ (call.op \notin ToolNames) <=> (result.content[1] = "Unknown tool: ")
          /\ (result.content[1] = "Unknown tool: ") => (result.content[2] = call.op)
          /\ (result.content[1] = "Region not found: ") => (call.op = "get_region")
          /\ (call.op = "search_regions" /\ Get(call.arguments).query = None)
               => (result.content[1] = "Error: "))
  /\ [][IsSome(call'.arguments) =>
          (allRegions' = allRegions /\ providers' = providers)]_vars

\* C30 witness: search_regions without its query is answered with an error
\* response
C30_Witness ==
  /\ Answered
  /\ call.op = "search_regions"
  /\ Get(call.arguments).query = None
  /\ result.content[1] = "Error: "
  /\ result.isError = Some(TRUE)
  /\ Len(allRegions) = MaxRegions

\* ------------------------------------------------------------------------
\* Properties of the store's indices and of the loader's cache
\* ------------------------------------------------------------------------

\* the view groups the list by key: its keys are the keys of the list, and
\* the group of a key holds the elements with that key, each once, in the
\* list's order
Partitions(view, list, keys) ==
  /\ DOMAIN view = {keys[i] : i \in 1..Len(list)}
  /\ \A k \in DOMAIN view :
       LET at == {i \in 1..Len(list) : keys[i] = k}
       IN  /\ Len(view[k]) = Cardinality(at)
           /\ \A i \in at : view[k][Cardinality({h \in at : h <= i})] = list[i]

\* C24: whatever initializeStore calls have been made, the indices of the
\* store are those of the snapshot now in it: a lookup by id finds the
\* record of the current list with that id (the last one when several have
\* it) and nothing for any other id, ids of earlier snapshots included, for
\* regions and for providers alike; the grouping views partition the
\* current regions, keeping their order.
C24_IndicesAreOfCurrentSnapshot ==
  /\ \A id \in RegionIds : getRegionById(id) = RecordWithId(store.regions, id)
  /\ \A id \in ProviderIds : getProviderById(id) = RecordWithId(SnapshotProviders, id)
  /\ Partitions(storeRegionsByProvider, store.regions,
                [i \in 1..Len(store.regions) |-> store.regions[i].provider])
  /\ Partitions(storeRegionsByCountry, store.regions,
                [i \in 1..Len(store.regions) |-> store.regions[i].location.countryCode])
  /\ Partitions(storeRegionsByContinent, store.regions,
                [i \in 1..Len(store.regions) |-> store.regions[i].location.continent])

\* the same, while every installed snapshot came with a provider table
C24_HoldsForCompleteSnapshots ==
  IsSome(store.providers) => C24_IndicesAreOfCurrentSnapshot

\* a snapshot with a repeated id is installed, after the bundled one
C24_RepeatedIdInstalled ==
  /\ store.regions = <<RegionA, RegionAReissued>>
  /\ getRegionById("aws-eu-central-1") = Some(RegionAReissued)
  /\ getRegionById("scaleway-fr-par") = None

\* C25: a call started less than CACHE_TTL after the success that filled
\* the cache, the cache not cleared since, returns the cached remote data
\* with source 'remote' and sends no request; a call started CACHE_TTL or
\* more after it, or with the cache empty or cleared, sends a request; a
\* bundled fallback is never put in the cache.
C25_CacheAnswersWithinItsLifetime ==
  /\ [][FetchStart =>
          IF IsSome(cachedData) /\ now < Get(cachedData).fetchedAt + CACHE_TTL
            THEN /\ call'.op = "fetchRegionData"
                 /\ result' = [regions |-> Get(cachedData).data.regions.items,
                               providers |-> Get(cachedData).data.providers,
                               metadata |-> Get(cachedData).data.metadata,
                               source |-> "remote"]
                 /\ fetching' = None
            ELSE /\ call' = NoCall
                 /\ fetching' = Some([startedAt |-> now, awaiting |-> "fetch"])]_vars
  /\ [][ClearCache => cachedData' = None]_vars
  /\ [][(call = NoCall /\ call'.op = "fetchRegionData"
           /\ result'.source = "bundled") => cachedData' = cachedData]_vars
  /\ [](IsSome(cachedData) =>
          /\ remote.kind = "json"
          /\ Get(cachedData).data = remote.body
          /\ Get(cachedData).fetchedAt <= now)

\* C25 witness: half an hour after the success that filled the cache a call
\* is answered from it, no request in flight
C25_Witness ==
  /\ call.op = "fetchRegionData"
  /\ IsSome(cachedData)
  /\ now = Get(cachedData).fetchedAt + HalfHour
  /\ result.source = "remote"
  /\ result.regions = <<RegionD, RegionA>>
  /\ fetching = None

\* C26: a fetchRegionData call is resolved at the latest when its timer of
\* FETCH_TIMEOUT is due, whatever the endpoint does: no request is in flight
\* longer.
C26_ResolvesWithinTimeout ==
  IsSome(fetching) => now - Get(fetching).startedAt <= FETCH_TIMEOUT

\* while fetch itself is awaited the timer bounds the call
C26_HeadersWithinTimeout ==
  awaitingFetch => now - Get(fetching).startedAt <= FETCH_TIMEOUT

\* the endpoint that never answers is given up at the time the timer is due
C26_SilentEndpointGivenUp ==
  /\ remote.kind = "timeout"
  /\ call.op = "fetchRegionData"
  /\ result = bundledData
  /\ now = FETCH_TIMEOUT

====
